---------------------------- MODULE Spec2Model ----------------------------
(***************************************************************************)
(* A model of the RAG chat backend:                                        *)
(*   - _configure_settings_from_env, the model-connection bring-up         *)
(*     (core/adapters/llama_index/llama_index_adapter.py);                 *)
(*   - on_message, one chat turn with its producer, consumer and queue     *)
(*     (backend/app.py);                                                   *)
(*   - the source attribution computed at the end of a turn;               *)
(*   - on_chat_start and on_message of two sessions that share the event   *)
(*     loop and the globals index, retriever and generator;                *)
(*   - LlamaIndexIndexer.load and LlamaIndexRetriever;                     *)
(*   - HashingEmbedding._embed.                                            *)
(*                                                                         *)
(* Text is a sequence of code points, so that str.join, "+" on strings and *)
(* sorted() on strings are computed as Python computes them.               *)
(* Environment values that _configure_settings_from_env parses with        *)
(* int()/float() are taken to be numerals.                                 *)
(***************************************************************************)
EXTENDS Integers, Sequences, FiniteSets, TLC

VARIABLES
    \* ---- _configure_settings_from_env ----
    cfgPc,               \* position in _configure_settings_from_env
    llamaIndexAvailable, \* PromptHelper and Settings are not None
    ollamaAvailable,     \* Ollama is not None
    autoStart,           \* env.get("OLLAMA_AUTO_START") is truthy
    startupTimeout,      \* float(env.get("OLLAMA_STARTUP_TIMEOUT", "30"))
    now,                 \* time.time(), relative to the call
    deadline,            \* the local deadline (-1: not computed)
    llm,                 \* the local llm
    settingsLlm,         \* Settings.llm
    handles,             \* the Ollama handles constructed so far: handles[i] is
                         \* the outcome of handle i's client.list()
    popenCalls,          \* calls of subprocess.Popen
    sleepCalls,          \* calls of time.sleep
    firstFailed,         \* the first construct+probe raised
    cfgRaised,           \* the exception _configure_settings_from_env raised
    \* ---- backend/app.py: the shared pipeline and one on_message call ----
    index,               \* the global index: 0 is None, n the n-th index built
    retriever,           \* the global retriever: the index it wraps (0: None)
    generator,           \* the global generator: the index it was built for
    sharedAtTry,         \* <<index, retriever, generator>> on entering the try
    elements,            \* message.elements is non-empty
    internet,            \* cl.user_session.get("internet")
    hasAgenerateStream,  \* hasattr(generator, "agenerate_stream")
    asynthesizeCallable, \* callable(getattr(synthesizer, "asynthesize", None))
    genPresent,          \* response_gen / async_response_gen is not None
    toks,                \* the tokens the model streams for this query
    failAt,              \* the generation raises after this many tokens (-1: never)
    mPc,                 \* position of on_message
    nodes,               \* the local nodes: a sequence of metadata mappings
    scores,              \* the score of each of them, in tenths
    retrieved,           \* what retriever.retrieve returned
    snippet,             \* what internet_search returned
    messages,            \* contents of the cl.Message(...).send() calls
    sentUpdated,         \* sent.update(actions=actions) was awaited
    retrieveRaised,      \* retriever.retrieve raised in this turn
    searchFailed,        \* internet_search met a failure of its collaborator
    queue,               \* the turn's asyncio.Queue
    callbacks,           \* loop.call_soon_threadsafe callbacks not yet run
    pushed,              \* every item the producer has handed over so far
    emitted,             \* tokens the generator has yielded so far
    pPc,                 \* the producer: idle, running, done, raised
    cPc,                 \* the consumer: idle, get, stream, done
    loopOwner,           \* who keeps the event loop from running other tasks
    answerParts,         \* answer_parts
    sink,                \* the sent.stream_token calls, in order
    answer,              \* the local answer
    \* ---- the source attribution, applied to arbitrary node lists ----
    attrNodes,           \* the nodes handed to the attribution
    attrDone,            \* the attribution was computed
    attrSources,         \* the joined source list
    \* ---- backend/app.py: two chat sessions on the one event loop ----
    indexDir,            \* INDEX_DIR on disk: missing, malformed or good
    built,               \* index objects created so far by build and load
    loadsCompleted,      \* loads and rebuilds that ran to their last line
    loopHeld,            \* the session whose _ingest_elements the loop is in (0: none)
    sessPc,              \* per session: position of on_chat_start / on_message
    sessElements,        \* per session: message.elements is non-empty
    sessInternet,        \* per session: cl.user_session.get("internet")
    sessThreaded,        \* per session: the producer is produce_sync in a thread
    sessMessages,        \* per session: contents of the messages sent
    lastUserMessage,     \* per session: user_session["last_user_message"]
    checkedWith,         \* per session: <<retriever, generator>> at line 153
    usedRetriever,       \* per session: the retriever line 159 retrieved with
    usedGenerator,       \* per session: the generator the producer called
    searched,            \* per session: internet_search was awaited
    sessQueue,           \* per session: the asyncio.Queue of its turn
    loopCallbacks,       \* the loop's call_soon_threadsafe callbacks, oldest first
    sessEmitted,         \* per session: tokens its generator has yielded
    sessProducer,        \* per session: idle, called, running, done
    sessConsumer,        \* per session: idle, get, stream, done
    sessParts,           \* per session: answer_parts
    sessSink,            \* per session: the stream_token calls on its message
    \* ---- the adapter's LlamaIndexIndexer.load and LlamaIndexRetriever ----
    accPc,               \* load, construct, retrieve, done
    storageAvailable,    \* StorageContext and load_index_from_storage are bound
    accDir,              \* persist_dir on disk: missing, malformed or good
    accConfigured,       \* load has called _configure_settings_from_env
    accIndex,            \* the index load returned (0: none)
    accRaised,           \* the exception that ended the sequence
    envRetrievalK,       \* os.environ RETRIEVAL_K
    envFetchK,           \* os.environ FETCH_K
    topK,                \* the top_k argument of retrieve
    accRetriever,        \* the retriever's k and fetch_k
    accSearch,           \* the arguments of the as_retriever(...).retrieve call
    \* ---- the adapter's HashingEmbedding, embedding two texts ----
    embDim,              \* self.dim
    embTextA,            \* the text of the first _embed call
    embTextB,            \* the text of the second _embed call
    embVecA,             \* what _embed returned for embTextA
    embVecB,             \* what _embed returned for embTextB
    \* ---- indexer/ingest.py: build_index over a documents directory ----
    docs,                \* per path under docs_dir: what is there now
    indexDirExists,      \* index_dir exists
    indexFile,           \* index_dir/index.json
    builds,              \* build_index calls that have returned
    docEdits,            \* changes made to docs_dir so far
    docsChanged,         \* docs_dir changed since the last build returned
    \* ---- backend/app.py: vote_callback and the feedback log ----
    feedbackLog,         \* the text of FEEDBACK_PATH
    fbLast,              \* user_session["last_user_message"] (NoneValue: unset)
    fbNow,               \* the clock datetime.utcnow() reads
    fbVotes,             \* vote_callback calls so far
    fbDown,              \* of which with direction "down"
    \* ---- LlamaIndexResponseGenerator: the generation modes ----
    thinkingSteps,       \* self.thinking_steps
    genQuery,            \* the query the caller passed
    genMode,             \* the method the caller called
    synthQuery,          \* the query the synthesizer received
    genCalls,            \* calls so far
    \* ---- indexer/watcher.py ----
    wPc,                 \* position of main
    wDelay,              \* DebouncedHandler.delay in ticks of the model's clock
    wTimerSet,           \* self._timer is not None
    wWaiting,            \* the thread of self._timer is in finished.wait
    wRemaining,          \* ticks until that wait times out
    wArmed,              \* timer threads past the finished.is_set() test
    wRunning,            \* run_ingest executions in progress
    wSince,              \* ticks since the most recent event (at most wDelay)
    wPending,            \* an event has not been followed by a run start yet
    wStarts,             \* run starts since the most recent event
    wRaced               \* the most recent event came while a timer was armed

cfgVars == <<cfgPc, llamaIndexAvailable, ollamaAvailable, autoStart,
             startupTimeout, now, deadline, llm, settingsLlm, handles,
             popenCalls, sleepCalls, firstFailed, cfgRaised>>

sharedVars == <<index, retriever, generator>>

inputVars == <<elements, internet, hasAgenerateStream, asynthesizeCallable,
               genPresent, toks, failAt>>

streamVars == <<queue, callbacks, pushed, emitted, pPc, cPc, loopOwner,
                answerParts, sink>>

nodeVars == <<nodes, scores, retrieved, snippet>>

mainVars == <<mPc, nodeVars, messages, sentUpdated, answer, sharedAtTry,
              retrieveRaised, searchFailed>>

turnVars == <<sharedVars, inputVars, streamVars, mainVars>>

attrVars == <<attrNodes, attrDone, attrSources>>

chatInputs == <<sessElements, sessInternet, sessThreaded>>

chatMain == <<indexDir, built, loadsCompleted, loopHeld, sessPc, sessMessages, lastUserMessage,
              checkedWith, usedRetriever, searched>>

chatStream == <<usedGenerator, sessQueue, loopCallbacks, sessEmitted,
                sessProducer, sessConsumer, sessParts, sessSink>>

chatVars == <<chatInputs, chatMain, chatStream>>

accVars == <<accPc, storageAvailable, accDir, accConfigured, accIndex,
             accRaised, envRetrievalK, envFetchK, topK, accRetriever,
             accSearch>>

embVars == <<embDim, embTextA, embTextB, embVecA, embVecB>>

adapterVars == <<accVars, embVars>>

ingVars == <<docs, indexDirExists, indexFile, builds, docEdits, docsChanged>>

fbVars == <<feedbackLog, fbLast, fbNow, fbVotes, fbDown>>

genVars == <<thinkingSteps, genQuery, genMode, synthQuery, genCalls>>

watchVars == <<wPc, wDelay, wTimerSet, wWaiting, wRemaining, wArmed, wRunning,
               wSince, wPending, wStarts, wRaced>>

toolVars == <<ingVars, fbVars, genVars, watchVars>>

vars == <<cfgVars, turnVars, attrVars, chatVars, adapterVars, toolVars>>

-----------------------------------------------------------------------------
(* Bounds *)

\* largest OLLAMA_STARTUP_TIMEOUT drawn, in seconds
MaxStartupTimeout == 3
\* longest time one construct+probe takes beyond the sleep, in seconds
MaxProbeTime == 1

(* Program constants *)

\* time.sleep(1)
SleepInterval == 1

-----------------------------------------------------------------------------
(* Text: a Python str is the sequence of its code points *)

\* "".join(parts) for sep = <<>>, and sep.join(parts) in general
RECURSIVE Join(_, _)
Join(parts, sep) ==
    IF parts = <<>> THEN <<>>
    ELSE IF Len(parts) = 1 THEN parts[1]
    ELSE parts[1] \o sep \o Join(Tail(parts), sep)

IsPrefix(s, t) == Len(s) <= Len(t) /\ s = SubSeq(t, 1, Len(s))

\* s < t for two str: the first differing code point decides, a proper prefix
\* is smaller
RECURSIVE StrLess(_, _)
StrLess(s, t) ==
    IF t = <<>> THEN FALSE
    ELSE IF s = <<>> THEN TRUE
    ELSE IF s[1] # t[1] THEN s[1] < t[1]
    ELSE StrLess(Tail(s), Tail(t))

\* sorted(S) for a set of str
RECURSIVE Sorted(_)
Sorted(S) ==
    IF S = {} THEN <<>>
    ELSE LET least == CHOOSE x \in S : \A y \in S \ {x} : StrLess(x, y)
         IN  <<least>> \o Sorted(S \ {least})

\* the strings the model uses
Pong == <<112, 111, 110, 103>>
Bang == <<33>>
CommaSpace == <<44, 32>>
ATxt == <<97, 46, 116, 120, 116>>
BTxt == <<98, 46, 116, 120, 116>>
InternetStr == <<73, 110, 116, 101, 114, 110, 101, 116>>
SnippetStr == <<115>>
\* "\n\nQuellen: "
SourcesLabel == <<10, 10, 81, 117, 101, 108, 108, 101, 110, 58, 32>>

NoIndexMessage == "Kein Index geladen."
FailureMessage == "Bei der Verarbeitung ist ein Fehler aufgetreten."
EmptyMessage == ""

\* the state of the chat turn before on_message is called
TurnIdle ==
    /\ index = 0 /\ retriever = 0 /\ generator = 0
    /\ sharedAtTry = <<0, 0, 0>>
    /\ elements = FALSE /\ internet = FALSE
    /\ hasAgenerateStream = TRUE /\ asynthesizeCallable = TRUE
    /\ genPresent = TRUE
    /\ toks = <<>> /\ failAt = -1
    /\ mPc = "idle"
    /\ nodes = <<>> /\ messages = <<>> /\ sentUpdated = FALSE
    /\ scores = <<>> /\ retrieved = <<>> /\ snippet = <<>>
    /\ retrieveRaised = FALSE /\ searchFailed = FALSE
    /\ queue = <<>> /\ callbacks = <<>> /\ pushed = <<>> /\ emitted = 0
    /\ pPc = "idle" /\ cPc = "idle" /\ loopOwner = "free"
    /\ answerParts = <<>> /\ sink = <<>> /\ answer = <<>>

AttrIdle ==
    /\ attrNodes = <<>>
    /\ attrDone = FALSE
    /\ attrSources = <<>>

\* an environment variable that is not set, and one that is not a number
Unset == -1
NotANumber == -2
\* top_k = None
NoTopK == 0
NoRetriever == [k |-> 0, fetch_k |-> 0]
NoSearch == [top_k |-> 0, fetch_k |-> 0]

\* neither load nor the retriever has been called
AccIdle ==
    /\ accPc = "idle"
    /\ storageAvailable = TRUE /\ accDir = "missing"
    /\ accConfigured = FALSE /\ accIndex = 0 /\ accRaised = "none"
    /\ envRetrievalK = Unset /\ envFetchK = Unset /\ topK = NoTopK
    /\ accRetriever = NoRetriever /\ accSearch = NoSearch

\* a vector is kept as its numerators and the square of their common
\* denominator: component i is num[i] / sqrt(den2); NoVec is no vector
NoVec == [num |-> <<>>, den2 |-> 0]

\* _embed has not been called
EmbIdle ==
    /\ embDim = 1
    /\ embTextA = <<>> /\ embTextB = <<>>
    /\ embVecA = NoVec /\ embVecB = NoVec

AdapterIdle == AccIdle /\ EmbIdle

\* the paths the model puts under docs_dir, relative to it
DocPaths == {[stem |-> "a", suffix |-> ".txt"],
             [stem |-> "b", suffix |-> ".PDF"],
             [stem |-> "c", suffix |-> ".png"]}

\* nothing at a path
Gone == [kind |-> "gone", content |-> 0]
\* index.json does not exist
NoIndexFile == [kind |-> "absent", items |-> <<>>]

\* build_index has not been called on anything
IngestIdle ==
    /\ docs = [p \in DocPaths |-> Gone]
    /\ indexDirExists = FALSE
    /\ indexFile = NoIndexFile
    /\ builds = 0 /\ docEdits = 0 /\ docsChanged = FALSE

\* Python's None where a str is expected
NoneValue == <<-1>>

\* no vote has been cast
FeedbackIdle ==
    /\ feedbackLog = <<>>
    /\ fbLast = NoneValue
    /\ fbNow = 0 /\ fbVotes = 0 /\ fbDown = 0

\* no query has been passed yet
NoQuery == <<"NoQuery">>

\* no generation has been asked for
GenIdle ==
    /\ thinkingSteps = 1
    /\ genQuery = NoQuery /\ synthQuery = NoQuery
    /\ genMode = "none" /\ genCalls = 0

\* the default "1.0" of DEBOUNCE_SECONDS, in ticks
DefaultDelay == 1

\* the watcher has not been started
WatchIdle ==
    /\ wPc = "off" /\ wDelay = DefaultDelay
    /\ wTimerSet = FALSE /\ wWaiting = FALSE /\ wRemaining = 0
    /\ wArmed = 0 /\ wRunning = 0
    /\ wSince = DefaultDelay /\ wPending = FALSE /\ wStarts = 0
    /\ wRaced = FALSE

ToolsIdle == IngestIdle /\ FeedbackIdle /\ GenIdle /\ WatchIdle

\* the chat sessions served by the one process
Sessions == {1, 2}

\* no session is connected
ChatIdle ==
    /\ indexDir = "missing" /\ built = 0
    /\ loadsCompleted = 0 /\ loopHeld = 0
    /\ sessPc = [t \in Sessions |-> "off"]
    /\ sessElements = [t \in Sessions |-> FALSE]
    /\ sessInternet = [t \in Sessions |-> FALSE]
    /\ sessThreaded = [t \in Sessions |-> FALSE]
    /\ sessMessages = [t \in Sessions |-> <<>>]
    /\ lastUserMessage = [t \in Sessions |-> 0]
    /\ checkedWith = [t \in Sessions |-> <<0, 0>>]
    /\ usedRetriever = [t \in Sessions |-> 0]
    /\ usedGenerator = [t \in Sessions |-> 0]
    /\ searched = [t \in Sessions |-> FALSE]
    /\ sessQueue = [t \in Sessions |-> <<>>]
    /\ loopCallbacks = <<>>
    /\ sessEmitted = [t \in Sessions |-> 0]
    /\ sessProducer = [t \in Sessions |-> "idle"]
    /\ sessConsumer = [t \in Sessions |-> "idle"]
    /\ sessParts = [t \in Sessions |-> <<>>]
    /\ sessSink = [t \in Sessions |-> <<>>]

-----------------------------------------------------------------------------
(* _configure_settings_from_env *)

Unbound == [kind |-> "unbound", id |-> 0]
MockLLM == [kind |-> "mock", id |-> 0]
OllamaHandle(i) == [kind |-> "ollama", id |-> i]

\* Ollama(**llm_kwargs) followed by llm.client.list(): the handle is bound to
\* llm as soon as it is constructed, whatever its probe says.
LlmAfterAttempt(constructOk, old) ==
    IF constructOk THEN OllamaHandle(Len(handles) + 1) ELSE old

HandlesAfterAttempt(constructOk, probeOk) ==
    IF constructOk THEN Append(handles, probeOk) ELSE handles

CfgIdle ==
    /\ cfgPc = "idle"
    /\ llamaIndexAvailable = TRUE
    /\ ollamaAvailable = TRUE
    /\ autoStart = FALSE
    /\ startupTimeout = 0
    /\ now = 0
    /\ deadline = -1
    /\ llm = Unbound
    /\ settingsLlm = Unbound
    /\ handles = <<>>
    /\ popenCalls = 0
    /\ sleepCalls = 0
    /\ firstFailed = FALSE
    /\ cfgRaised = "none"

InitCfg ==
    /\ TurnIdle
    /\ AttrIdle
    /\ ChatIdle
    /\ AdapterIdle
    /\ ToolsIdle
    /\ cfgPc = "start"
    /\ llamaIndexAvailable \in BOOLEAN
    /\ ollamaAvailable \in BOOLEAN
    /\ autoStart \in BOOLEAN
    /\ startupTimeout \in 0..MaxStartupTimeout
    /\ now = 0
    /\ deadline = -1
    /\ llm = Unbound
    /\ settingsLlm = Unbound
    /\ handles = <<>>
    /\ popenCalls = 0
    /\ sleepCalls = 0
    /\ firstFailed = FALSE
    /\ cfgRaised = "none"

\* lines 104-126: the library check and the branch on Ollama is None
CfgStart ==
    /\ cfgPc = "start"
    /\ IF ~llamaIndexAvailable
       THEN /\ cfgPc' = "raised"
            /\ cfgRaised' = "ImportError"
            /\ llm' = llm
       ELSE /\ cfgRaised' = cfgRaised
            /\ IF ~ollamaAvailable
               THEN /\ llm' = MockLLM
                    /\ cfgPc' = "install"
               ELSE /\ llm' = llm
                    /\ cfgPc' = "first"
    /\ UNCHANGED <<llamaIndexAvailable, ollamaAvailable, autoStart,
                   startupTimeout, now, deadline, settingsLlm, handles,
                   popenCalls, sleepCalls, firstFailed>>
    /\ UNCHANGED <<turnVars, attrVars, chatVars, adapterVars, toolVars>>

\* FirstAttempt without line 188: the failed handle stays bound to llm
FirstAttemptKeepsHandle(constructOk, probeOk) ==
    /\ cfgPc = "first"
    /\ handles' = HandlesAfterAttempt(constructOk, probeOk)
    /\ llm' = LlmAfterAttempt(constructOk, llm)
    /\ firstFailed' = (firstFailed \/ ~(constructOk /\ probeOk))
    /\ cfgPc' = IF (constructOk /\ probeOk) \/ ~autoStart
                THEN "install" ELSE "spawn"
    /\ UNCHANGED <<llamaIndexAvailable, ollamaAvailable, autoStart,
                   startupTimeout, now, deadline, settingsLlm, popenCalls,
                   sleepCalls, cfgRaised>>
    /\ UNCHANGED <<turnVars, attrVars, chatVars, adapterVars, toolVars>>

\* lines 141-147 and 182-188: the first construct+probe and, when it raises,
\* the branch on OLLAMA_AUTO_START
FirstAttempt(constructOk, probeOk) ==
    /\ cfgPc = "first"
    /\ handles' = HandlesAfterAttempt(constructOk, probeOk)
    /\ IF constructOk /\ probeOk
       THEN /\ llm' = LlmAfterAttempt(constructOk, llm)
            /\ cfgPc' = "install"
            /\ firstFailed' = firstFailed
       ELSE /\ firstFailed' = TRUE
            /\ IF autoStart
               THEN /\ llm' = LlmAfterAttempt(constructOk, llm)
                    /\ cfgPc' = "spawn"
               ELSE /\ llm' = MockLLM
                    /\ cfgPc' = "install"
    /\ UNCHANGED <<llamaIndexAvailable, ollamaAvailable, autoStart,
                   startupTimeout, now, deadline, settingsLlm, popenCalls,
                   sleepCalls, cfgRaised>>
    /\ UNCHANGED <<turnVars, attrVars, chatVars, adapterVars, toolVars>>

\* lines 153-167: subprocess.Popen(["ollama", "serve"]); when it raises the
\* mock is bound, otherwise the deadline is computed
SpawnServer(popenOk) ==
    /\ cfgPc = "spawn"
    /\ popenCalls' = popenCalls + 1
    /\ IF popenOk
       THEN /\ deadline' = now + startupTimeout
            /\ llm' = llm
            /\ cfgPc' = "poll"
       ELSE /\ deadline' = deadline
            /\ llm' = MockLLM
            /\ cfgPc' = "install"
    /\ UNCHANGED <<llamaIndexAvailable, ollamaAvailable, autoStart,
                   startupTimeout, now, settingsLlm, handles, sleepCalls,
                   firstFailed, cfgRaised>>
    /\ UNCHANGED <<turnVars, attrVars, chatVars, adapterVars, toolVars>>

\* PollTest without the else branch of the while (lines 176-181)
PollTestNoElse ==
    /\ cfgPc = "poll"
    /\ cfgPc' = IF now < deadline THEN "attempt" ELSE "install"
    /\ UNCHANGED <<llamaIndexAvailable, ollamaAvailable, autoStart,
                   startupTimeout, now, deadline, llm, settingsLlm, handles,
                   popenCalls, sleepCalls, firstFailed, cfgRaised>>
    /\ UNCHANGED <<turnVars, attrVars, chatVars, adapterVars, toolVars>>

\* line 168 and 176-181: the loop test, and the else branch of the while
PollTest ==
    /\ cfgPc = "poll"
    /\ IF now < deadline
       THEN /\ cfgPc' = "attempt"
            /\ llm' = llm
       ELSE /\ cfgPc' = "install"
            /\ llm' = MockLLM
    /\ UNCHANGED <<llamaIndexAvailable, ollamaAvailable, autoStart,
                   startupTimeout, now, deadline, settingsLlm, handles,
                   popenCalls, sleepCalls, firstFailed, cfgRaised>>
    /\ UNCHANGED <<turnVars, attrVars, chatVars, adapterVars, toolVars>>

\* PollAttempt without the break of line 173
PollAttemptNoBreak(constructOk, probeOk, took) ==
    /\ cfgPc = "attempt"
    /\ sleepCalls' = sleepCalls + 1
    /\ now' = now + SleepInterval + took
    /\ handles' = HandlesAfterAttempt(constructOk, probeOk)
    /\ llm' = LlmAfterAttempt(constructOk, llm)
    /\ cfgPc' = "poll"
    /\ UNCHANGED <<llamaIndexAvailable, ollamaAvailable, autoStart,
                   startupTimeout, deadline, settingsLlm, popenCalls,
                   firstFailed, cfgRaised>>
    /\ UNCHANGED <<turnVars, attrVars, chatVars, adapterVars, toolVars>>

\* lines 169-175: one pass of the loop body: sleep, construct, probe; break on
\* success, continue on any exception
PollAttempt(constructOk, probeOk, took) ==
    /\ cfgPc = "attempt"
    /\ sleepCalls' = sleepCalls + 1
    /\ now' = now + SleepInterval + took
    /\ handles' = HandlesAfterAttempt(constructOk, probeOk)
    /\ llm' = LlmAfterAttempt(constructOk, llm)
    /\ cfgPc' = IF constructOk /\ probeOk THEN "install" ELSE "poll"
    /\ UNCHANGED <<llamaIndexAvailable, ollamaAvailable, autoStart,
                   startupTimeout, deadline, settingsLlm, popenCalls,
                   firstFailed, cfgRaised>>
    /\ UNCHANGED <<turnVars, attrVars, chatVars, adapterVars, toolVars>>

\* lines 190-195: Settings.llm = llm
InstallSettings ==
    /\ cfgPc = "install"
    /\ settingsLlm' = llm
    /\ cfgPc' = "done"
    /\ UNCHANGED <<llamaIndexAvailable, ollamaAvailable, autoStart,
                   startupTimeout, now, deadline, llm, handles, popenCalls,
                   sleepCalls, firstFailed, cfgRaised>>
    /\ UNCHANGED <<turnVars, attrVars, chatVars, adapterVars, toolVars>>

NextCfg ==
    \/ CfgStart
    \/ \E c \in BOOLEAN, p \in BOOLEAN : FirstAttempt(c, p)
    \/ \E ok \in BOOLEAN : SpawnServer(ok)
    \/ PollTest
    \/ \E c \in BOOLEAN, p \in BOOLEAN, t \in 0..MaxProbeTime :
           PollAttempt(c, p, t)
    \/ InstallSettings

SpecCfg == InitCfg /\ [][NextCfg]_vars

\* The function is straight-line code run by one thread: it keeps running
\* until it returns or raises.
SpecCfgFair == SpecCfg /\ WF_vars(NextCfg)

-----------------------------------------------------------------------------
(* Claims about _configure_settings_from_env *)

CfgReturned == cfgPc = "done"
LiveHandles == {i \in 1..Len(handles) : handles[i]}
PopenRaised == popenCalls = 1 /\ deadline = -1

\* C1: when the first construct+probe raises and OLLAMA_AUTO_START is unset,
\* the function does not raise, binds and installs the mock handle, and never
\* calls Popen or sleep.
C1_MockWithoutAutoStart ==
    (firstFailed /\ ~autoStart) =>
        /\ cfgPc \in {"install", "done"}
        /\ cfgRaised = "none"
        /\ llm = MockLLM
        /\ (CfgReturned => settingsLlm = MockLLM)
        /\ popenCalls = 0
        /\ sleepCalls = 0

C1_Witness ==
    /\ firstFailed /\ ~autoStart /\ CfgReturned
    /\ settingsLlm = MockLLM
    /\ Len(handles) = 1

\* C2: whatever the connection steps do, the function raises only when
\* llama_index itself is missing, and the handle it installs is the mock
\* unless some handle's own probe succeeded, in which case it is that handle.
C2_InstalledHandleIsMockOrLive ==
    /\ (llamaIndexAvailable => cfgPc # "raised" /\ cfgRaised = "none")
    /\ CfgReturned =>
          IF LiveHandles = {}
          THEN settingsLlm = MockLLM
          ELSE /\ settingsLlm.kind = "ollama"
               /\ settingsLlm.id \in LiveHandles

C2_Witness ==
    /\ CfgReturned
    /\ Len(handles) >= 3
    /\ ~handles[1]
    /\ settingsLlm = OllamaHandle(Len(handles))

\* C3 as claimed: with the first attempt failed and the flag set, the server
\* is spawned once and then polled, so the mock is installed only once the
\* clock has passed the deadline.
C3_Original ==
    (CfgReturned /\ firstFailed /\ autoStart) =>
        /\ popenCalls = 1
        /\ settingsLlm = MockLLM => (deadline >= 0 /\ now >= deadline)

C3_State ==
    (firstFailed /\ autoStart) =>
        /\ popenCalls = IF cfgPc = "spawn" THEN 0 ELSE 1
        /\ PopenRaised => (sleepCalls = 0 /\ llm = MockLLM /\ Len(handles) <= 1)
        /\ cfgPc = "attempt" => now < deadline
        /\ sleepCalls * SleepInterval < startupTimeout + SleepInterval
        /\ LiveHandles \subseteq {Len(handles)}
        /\ LiveHandles # {} => cfgPc \in {"install", "done"}
        /\ (CfgReturned /\ ~PopenRaised) =>
              IF LiveHandles = {}
              THEN settingsLlm = MockLLM /\ now >= deadline
              ELSE settingsLlm = OllamaHandle(Len(handles))

\* C3 (amended): with the first attempt failed and the flag set, Popen is
\* called exactly once; if that call raises, the mock is installed with no
\* sleep and no further attempt; otherwise (sleep, construct, probe) attempts
\* are made only while the clock is before the deadline, the first handle
\* whose probe succeeds ends the loop and is installed, the mock is installed
\* when the deadline passes with no success, and the function always returns.
C3_AutoStartPolling ==
    /\ []C3_State
    /\ (firstFailed /\ autoStart) ~> CfgReturned

C3_Witness ==
    /\ CfgReturned /\ firstFailed /\ autoStart
    /\ sleepCalls = 2
    /\ settingsLlm = OllamaHandle(Len(handles))
-----------------------------------------------------------------------------
(* backend/app.py: node metadata and the source attribution *)

\* A metadata dict over the keys the code reads (file_name, source) and one
\* more key; Absent marks a key the dict does not hold.
Absent == <<-1>>
Meta(fileName, source, other) ==
    [file_name |-> fileName, source |-> source, other |-> other]
MetaKeys == {"file_name", "source", "other"}
HasKey(md, k) == md[k] # Absent
\* a dict is truthy when it holds a key
MetaTruthy(md) == \E k \in MetaKeys : HasKey(md, k)

\* md.get("file_name") or md.get("source", "")   (lines 211-217)
SourceEntry(md) ==
    IF HasKey(md, "file_name") /\ md["file_name"] # <<>>
    THEN md["file_name"]
    ELSE IF HasKey(md, "source") THEN md["source"] ELSE <<>>

\* the set comprehension of lines 210-220
SourceSet(ns) ==
    {SourceEntry(ns[i]) : i \in {j \in 1..Len(ns) : MetaTruthy(ns[j])}}

\* ", ".join(sorted({...}))   (lines 208-222)
Sources(ns) == Join(Sorted(SourceSet(ns)), CommaSpace)

\* a sources segment built without the test of line 224
SourcesTextUnguarded(ns) == SourcesLabel \o Sources(ns)

\* sources_text, the empty string when sources is empty   (lines 224-225)
SourcesText(ns) ==
    IF Sources(ns) # <<>> THEN SourcesLabel \o Sources(ns) ELSE <<>>

\* NodeWithScore(node=TextNode(text=snippet, metadata={"source": "Internet"}))
InternetNode == Meta(Absent, InternetStr, Absent)

-----------------------------------------------------------------------------
(* backend/app.py: one call of on_message *)

\* upper bound on the tokens the model streams in a turn
MaxTokens == 2

TokenSet == {<<>>, Pong, Bang}
TokenSeqs == UNION {[1..n -> TokenSet] : n \in 0..MaxTokens}

\* what retriever.retrieve returns in the modelled turns
RetrievalResults ==
    { <<>>,
      <<Meta(Absent, Absent, Absent)>>,
      <<Meta(ATxt, Absent, Absent), Meta(Absent, Absent, <<120>>)>>,
      <<Meta(BTxt, Absent, Absent), Meta(ATxt, Absent, Absent),
        Meta(ATxt, Absent, Absent)>> }

\* the scores retriever.retrieve attached to its nodes, in tenths
RetrievalScores(result) == [i \in 1..Len(result) |-> 9 - i]

\* the tokens generate_stream / agenerate_stream yield: the stream's tokens,
\* or str(response) when the response has no stream   (lines 305-310, 328-333)
Generated == IF genPresent THEN toks ELSE <<Join(toks, <<>>)>>

Item(t) == [end |-> FALSE, text |-> t]
\* the end-of-stream marker None
EndMarker == [end |-> TRUE, text |-> <<>>]

\* produce_async over the native asynthesize stream
NativeAsync == hasAgenerateStream /\ asynthesizeCallable
\* produce_async over agenerate_stream's synchronous fallback
SyncFallback == hasAgenerateStream /\ ~asynthesizeCallable
\* produce_sync in a worker thread
Threaded == ~hasAgenerateStream

InitTurn ==
    /\ CfgIdle
    /\ AttrIdle
    /\ ChatIdle
    /\ AdapterIdle
    /\ ToolsIdle
    /\ index \in {0, 1}
    /\ retriever = index
    /\ generator = index
    /\ sharedAtTry = <<0, 0, 0>>
    /\ elements \in BOOLEAN
    /\ internet \in BOOLEAN
    /\ hasAgenerateStream \in BOOLEAN
    /\ asynthesizeCallable \in BOOLEAN
    /\ genPresent \in BOOLEAN
    /\ toks \in TokenSeqs
    /\ failAt \in -1..Len(Generated)
    /\ mPc = "start"
    /\ nodes = <<>> /\ messages = <<>> /\ sentUpdated = FALSE
    /\ scores = <<>> /\ retrieved = <<>> /\ snippet = <<>>
    /\ retrieveRaised = FALSE /\ searchFailed = FALSE
    /\ queue = <<>> /\ callbacks = <<>> /\ pushed = <<>> /\ emitted = 0
    /\ pPc = "idle" /\ cPc = "idle" /\ loopOwner = "free"
    /\ answerParts = <<>> /\ sink = <<>> /\ answer = <<>>

\* _ingest_elements: the three globals are rebound once build has returned;
\* an exception of build leaves them as they are
IngestElements(buildOk) ==
    IF buildOk
    THEN /\ index' = index + 1
         /\ retriever' = index + 1
         /\ generator' = index + 1
    ELSE UNCHANGED sharedVars

\* lines 151-152: an exception of _ingest_elements is outside the try
MainStart(buildOk) ==
    /\ mPc = "start"
    /\ IF elements
       THEN /\ IngestElements(buildOk)
            /\ mPc' = IF buildOk THEN "check" ELSE "propagated"
       ELSE /\ UNCHANGED sharedVars
            /\ mPc' = "check"
    /\ UNCHANGED <<inputVars, streamVars, nodeVars, messages, sentUpdated,
                   answer, sharedAtTry, retrieveRaised,
                   searchFailed>>
    /\ UNCHANGED <<cfgVars, attrVars, chatVars, adapterVars, toolVars>>

\* lines 153-156
MainCheck ==
    /\ mPc = "check"
    /\ IF retriever = 0 \/ generator = 0
       THEN /\ messages' = Append(messages, NoIndexMessage)
            /\ mPc' = "returned"
            /\ sharedAtTry' = sharedAtTry
       ELSE /\ messages' = messages
            /\ mPc' = "retrieve"
            /\ sharedAtTry' = <<index, retriever, generator>>
    /\ UNCHANGED <<sharedVars, inputVars, streamVars, nodeVars, sentUpdated,
                   answer, retrieveRaised,
                   searchFailed>>
    /\ UNCHANGED <<cfgVars, attrVars, chatVars, adapterVars, toolVars>>

\* lines 159-160: retriever.retrieve in a worker thread, awaited
MainRetrieve(result, ok) ==
    /\ mPc = "retrieve"
    /\ IF ok
       THEN /\ nodes' = result /\ scores' = RetrievalScores(result)
            /\ retrieved' = result /\ mPc' = "search"
       ELSE UNCHANGED <<nodes, scores, retrieved>> /\ mPc' = "except"
    /\ UNCHANGED snippet
    /\ retrieveRaised' = ~ok
    /\ UNCHANGED <<sharedVars, inputVars, streamVars, messages, sentUpdated,
                   answer, sharedAtTry, searchFailed>>
    /\ UNCHANGED <<cfgVars, attrVars, chatVars, adapterVars, toolVars>>

\* what the search service does with the request of lines 42-46: the request
\* times out or raises, the status is not a success, the body is not a JSON
\* mapping, the mapping has no (or an empty) AbstractText, or it has one
SearchFailures == {"timeout", "exception", "non_success", "malformed"}
SearchOutcomes == SearchFailures \cup {"no_abstract", "abstract"}

\* internet_search without its try/except
InternetSearchNoExcept(outcome) ==
    [raised |-> outcome \in {"timeout", "exception", "malformed"},
     text |-> IF outcome = "abstract" THEN SnippetStr ELSE <<>>]

\* internet_search (lines 38-53): every exception of the request and of the
\* decoding is caught, and every path but the one with an AbstractText ends
\* in the empty string
InternetSearch(outcome) ==
    [raised |-> FALSE,
     text |-> IF outcome = "abstract" THEN SnippetStr ELSE <<>>]

\* score=0.2 (line 167), in tenths
InternetScore == 2

WithInternetFirst(items, item, text) ==
    IF text # <<>> THEN <<item>> \o items ELSE items

\* lines 164-170: if snippet: nodes.append(...)
WithInternet(items, item, text) ==
    IF text # <<>> THEN Append(items, item) ELSE items

\* lines 162-170: with the internet flag set, the snippet of internet_search,
\* when it is not empty, is appended as the Internet node
MainSearch(outcome) ==
    /\ mPc = "search"
    /\ IF internet
       THEN /\ searchFailed' = (outcome \in SearchFailures)
            /\ IF InternetSearch(outcome).raised
               THEN UNCHANGED <<nodes, scores, snippet>> /\ mPc' = "except"
               ELSE /\ snippet' = InternetSearch(outcome).text
                    /\ nodes' = WithInternet(nodes, InternetNode, snippet')
                    /\ scores' = WithInternet(scores, InternetScore, snippet')
                    /\ mPc' = "open"
       ELSE /\ searchFailed' = FALSE
            /\ UNCHANGED <<nodes, scores, snippet>>
            /\ mPc' = "open"
    /\ UNCHANGED <<sharedVars, inputVars, streamVars, retrieved, messages,
                   sentUpdated, answer, sharedAtTry, retrieveRaised>>
    /\ UNCHANGED <<cfgVars, attrVars, chatVars, adapterVars, toolVars>>

\* lines 171-203: the empty message is sent, the queue is opened, the consumer
\* and the producer are started
MainOpen ==
    /\ mPc = "open"
    /\ messages' = Append(messages, EmptyMessage)
    /\ answerParts' = <<>>
    /\ queue' = <<>>
    /\ cPc' = "get"
    /\ pPc' = "running"
    /\ mPc' = "gather"
    /\ UNCHANGED <<sharedVars, inputVars, callbacks, pushed, emitted,
                   loopOwner, sink, nodeVars, sentUpdated, answer, sharedAtTry,
                   retrieveRaised,
                   searchFailed>>
    /\ UNCHANGED <<cfgVars, attrVars, chatVars, adapterVars, toolVars>>

\* gather that waits for the producer only
GatherReturnsProducerOnly == pPc = "done"

\* line 205: gather returns once both the producer and the consumer are done
GatherReturns == pPc = "done" /\ cPc = "done"

MainGatherDone ==
    /\ mPc = "gather"
    /\ loopOwner = "free"
    /\ GatherReturns
    /\ mPc' = "attribute"
    /\ UNCHANGED <<sharedVars, inputVars, streamVars, nodeVars, messages,
                   sentUpdated, answer, sharedAtTry, retrieveRaised,
                   searchFailed>>
    /\ UNCHANGED <<cfgVars, attrVars, chatVars, adapterVars, toolVars>>

\* lines 205 and 236: gather raises the producer's exception
MainGatherRaise ==
    /\ mPc = "gather"
    /\ loopOwner = "free"
    /\ pPc = "raised"
    /\ mPc' = "except"
    /\ UNCHANGED <<sharedVars, inputVars, streamVars, nodeVars, messages,
                   sentUpdated, answer, sharedAtTry, retrieveRaised,
                   searchFailed>>
    /\ UNCHANGED <<cfgVars, attrVars, chatVars, adapterVars, toolVars>>

\* lines 207-227
MainAttribute ==
    /\ mPc = "attribute"
    /\ loopOwner = "free"
    /\ answer' = Join(answerParts, <<>>) \o SourcesText(nodes)
    /\ sink' = IF Sources(nodes) # <<>>
               THEN Append(sink, [text |-> SourcesText(nodes), by |-> "sources"])
               ELSE sink
    /\ mPc' = "update"
    /\ UNCHANGED <<sharedVars, inputVars, queue, callbacks, pushed, emitted,
                   pPc, cPc, loopOwner, answerParts, nodeVars, messages,
                   sentUpdated, sharedAtTry, retrieveRaised,
                   searchFailed>>
    /\ UNCHANGED <<cfgVars, attrVars, chatVars, adapterVars, toolVars>>

\* lines 229-235
MainUpdate ==
    /\ mPc = "update"
    /\ loopOwner = "free"
    /\ sentUpdated' = TRUE
    /\ mPc' = "returned"
    /\ UNCHANGED <<sharedVars, inputVars, streamVars, nodeVars, messages,
                   answer, sharedAtTry, retrieveRaised,
                   searchFailed>>
    /\ UNCHANGED <<cfgVars, attrVars, chatVars, adapterVars, toolVars>>

\* an except block that re-raises instead of answering
MainExceptReraises ==
    /\ mPc = "except"
    /\ loopOwner = "free"
    /\ mPc' = "propagated"
    /\ UNCHANGED <<sharedVars, inputVars, streamVars, nodeVars, messages,
                   sentUpdated, answer, sharedAtTry, retrieveRaised,
                   searchFailed>>
    /\ UNCHANGED <<cfgVars, attrVars, chatVars, adapterVars, toolVars>>

\* lines 236-241
MainExcept ==
    /\ mPc = "except"
    /\ loopOwner = "free"
    /\ messages' = Append(messages, FailureMessage)
    /\ mPc' = "returned"
    /\ UNCHANGED <<sharedVars, inputVars, streamVars, nodeVars, sentUpdated,
                   answer, sharedAtTry, retrieveRaised,
                   searchFailed>>
    /\ UNCHANGED <<cfgVars, attrVars, chatVars, adapterVars, toolVars>>
\* queue.put(item) on the loop (line 192), or
\* loop.call_soon_threadsafe(queue.put_nowait, item) from the thread (line 200)
HandOver(item) ==
    /\ pushed' = Append(pushed, item)
    /\ IF Threaded
       THEN callbacks' = Append(callbacks, item) /\ queue' = queue
       ELSE queue' = Append(queue, item) /\ callbacks' = callbacks

\* The producer task runs when the loop schedules it; the worker thread runs
\* beside the loop. The synchronous fallback of agenerate_stream never
\* suspends (put on an unbounded queue returns at once), so from its first
\* token to its end no other task of the loop runs.
ProducerMayRun ==
    /\ pPc = "running"
    /\ \/ Threaded
       \/ loopOwner = "free"
       \/ SyncFallback /\ loopOwner = "producer"

\* lines 191-192 / 199-200: the next token is generated and handed over
ProduceToken ==
    /\ ProducerMayRun
    /\ emitted # failAt
    /\ emitted < Len(Generated)
    /\ HandOver(Item(Generated[emitted + 1]))
    /\ emitted' = emitted + 1
    /\ loopOwner' = IF SyncFallback THEN "producer" ELSE loopOwner
    /\ UNCHANGED <<pPc, cPc, answerParts, sink>>
    /\ UNCHANGED <<sharedVars, inputVars, mainVars, cfgVars, attrVars,
                   chatVars, adapterVars, toolVars>>

\* lines 193 / 201: the generator is exhausted, None is handed over
ProduceEnd ==
    /\ ProducerMayRun
    /\ emitted # failAt
    /\ emitted = Len(Generated)
    /\ HandOver(EndMarker)
    /\ pPc' = "done"
    /\ loopOwner' = IF SyncFallback THEN "free" ELSE loopOwner
    /\ UNCHANGED <<emitted, cPc, answerParts, sink>>
    /\ UNCHANGED <<sharedVars, inputVars, mainVars, cfgVars, attrVars,
                   chatVars, adapterVars, toolVars>>

\* the generation raises: the exception leaves produce_async / produce_sync
\* before line 193 / 201 is reached
ProducerRaise ==
    /\ ProducerMayRun
    /\ emitted = failAt
    /\ pPc' = "raised"
    /\ loopOwner' = IF SyncFallback THEN "free" ELSE loopOwner
    /\ UNCHANGED <<queue, callbacks, pushed, emitted, cPc, answerParts, sink>>
    /\ UNCHANGED <<sharedVars, inputVars, mainVars, cfgVars, attrVars,
                   chatVars, adapterVars, toolVars>>

\* the loop runs the oldest call_soon_threadsafe callback: queue.put_nowait
RunCallback ==
    /\ callbacks # <<>>
    /\ loopOwner = "free"
    /\ queue' = Append(queue, Head(callbacks))
    /\ callbacks' = Tail(callbacks)
    /\ UNCHANGED <<pushed, emitted, pPc, cPc, loopOwner, answerParts, sink>>
    /\ UNCHANGED <<sharedVars, inputVars, mainVars, cfgVars, attrVars,
                   chatVars, adapterVars, toolVars>>

\* asyncio.Queue.get takes the newest item
QueueGetNewest(q) == [item |-> q[Len(q)], rest |-> SubSeq(q, 1, Len(q) - 1)]

\* asyncio.Queue.get takes the oldest item   (line 179)
QueueGet(q) == [item |-> Head(q), rest |-> Tail(q)]

\* lines 179-182: token = await queue.get(); break on None, else append
ConsumeGet ==
    /\ cPc = "get"
    /\ loopOwner = "free"
    /\ queue # <<>>
    /\ queue' = QueueGet(queue).rest
    /\ IF QueueGet(queue).item.end
       THEN cPc' = "done" /\ answerParts' = answerParts
       ELSE /\ cPc' = "stream"
            /\ answerParts' = Append(answerParts, QueueGet(queue).item.text)
    /\ UNCHANGED <<callbacks, pushed, emitted, pPc, loopOwner, sink>>
    /\ UNCHANGED <<sharedVars, inputVars, mainVars, cfgVars, attrVars,
                   chatVars, adapterVars, toolVars>>

\* line 183: await sent.stream_token(token)
ConsumeStream ==
    /\ cPc = "stream"
    /\ loopOwner = "free"
    /\ sink' = Append(sink, [text |-> answerParts[Len(answerParts)],
                             by |-> "consume"])
    /\ cPc' = "get"
    /\ UNCHANGED <<queue, callbacks, pushed, emitted, pPc, loopOwner,
                   answerParts>>
    /\ UNCHANGED <<sharedVars, inputVars, mainVars, cfgVars, attrVars,
                   chatVars, adapterVars, toolVars>>

NextTurn ==
    \/ \E b \in BOOLEAN : MainStart(b)
    \/ MainCheck
    \/ \E r \in RetrievalResults, ok \in BOOLEAN : MainRetrieve(r, ok)
    \/ \E o \in SearchOutcomes : MainSearch(o)
    \/ MainOpen
    \/ MainGatherDone
    \/ MainGatherRaise
    \/ MainAttribute
    \/ MainUpdate
    \/ MainExcept
    \/ ProduceToken
    \/ ProduceEnd
    \/ ProducerRaise
    \/ RunCallback
    \/ ConsumeGet
    \/ ConsumeStream

SpecTurn == InitTurn /\ [][NextTurn]_vars

-----------------------------------------------------------------------------
(* The source attribution of lines 208-222 applied to any list of nodes *)

\* upper bound on the nodes of a list
MaxAttrNodes == 2

\* "", "a", "ab", "b"
AttrNames == {<<>>, <<97>>, <<97, 98>>, <<98>>}

Metadatas ==
    {Meta(f, s, o) : f \in AttrNames \cup {Absent},
                     s \in AttrNames \cup {Absent},
                     o \in {<<120>>, Absent}}

NodeLists == UNION {[1..n -> Metadatas] : n \in 0..MaxAttrNodes}

InitAttr ==
    /\ CfgIdle
    /\ TurnIdle
    /\ ChatIdle
    /\ AdapterIdle
    /\ ToolsIdle
    /\ attrNodes \in NodeLists
    /\ attrDone = FALSE
    /\ attrSources = <<>>

Attribute ==
    /\ ~attrDone
    /\ attrSources' = Sources(attrNodes)
    /\ attrDone' = TRUE
    /\ UNCHANGED <<attrNodes, cfgVars, turnVars, chatVars, adapterVars,
                   toolVars>>

NextAttr == Attribute

SpecAttr == InitAttr /\ [][NextAttr]_vars

-----------------------------------------------------------------------------
(* backend/app.py: on_chat_start and on_message of two sessions that share
   the event loop and the globals index, retriever and generator. What a turn
   does with its nodes, its answer text and its exceptions is the subject of
   SpecTurn; here a turn keeps its positions, its await points, what it reads
   from and writes to the globals, and its own stream. *)

\* the tokens each turn streams
MaxChatTokens == 1

\* an item of a turn's stream: token k of the turn's generator, 0 for None
ChatItem(t, k) == [turn |-> t, k |-> k]

OtherVarsOfChat ==
    <<cfgVars, attrVars, inputVars, streamVars, mainVars, adapterVars,
      toolVars>>

InitChat ==
    /\ CfgIdle
    /\ AttrIdle
    /\ TurnIdle
    /\ AdapterIdle
    /\ ToolsIdle
    /\ indexDir \in {"missing", "malformed", "good"}
    /\ built = 0
    /\ loadsCompleted = 0 /\ loopHeld = 0
    /\ sessPc = [t \in Sessions |-> "new"]
    /\ sessElements \in [Sessions -> BOOLEAN]
    /\ sessInternet \in [Sessions -> BOOLEAN]
    /\ sessThreaded \in [Sessions -> BOOLEAN]
    /\ sessMessages = [t \in Sessions |-> <<>>]
    /\ lastUserMessage = [t \in Sessions |-> 0]
    /\ checkedWith = [t \in Sessions |-> <<0, 0>>]
    /\ usedRetriever = [t \in Sessions |-> 0]
    /\ usedGenerator = [t \in Sessions |-> 0]
    /\ searched = [t \in Sessions |-> FALSE]
    /\ sessQueue = [t \in Sessions |-> <<>>]
    /\ loopCallbacks = <<>>
    /\ sessEmitted = [t \in Sessions |-> 0]
    /\ sessProducer = [t \in Sessions |-> "idle"]
    /\ sessConsumer = [t \in Sessions |-> "idle"]
    /\ sessParts = [t \in Sessions |-> <<>>]
    /\ sessSink = [t \in Sessions |-> <<>>]

\* LlamaIndexRetriever(index) and LlamaIndexResponseGenerator(index) return,
\* or one of them raises (an environment value int() or float() rejects, a
\* model that cannot be set up)
CtorOutcomes == {"ok", "retriever_raises", "generator_raises"}

\* lines 88, 92-93 and lines 109-111: the three globals are assigned one
\* after the other, each as soon as its right-hand side has been evaluated
Rebind(old, new, ctor) ==
    CASE ctor = "ok" -> <<new, new, new>>
      [] ctor = "retriever_raises" -> <<new, old[2], old[3]>>
      [] OTHER -> <<new, new, old[3]>>

\* _load_index that unbinds the helpers when the load fails
LoadIndexClearsOnFailure(dir, old, new, ctor) ==
    IF dir = "good"
    THEN [ok |-> ctor = "ok", raised |-> ctor # "ok",
          shared |-> Rebind(old, new, ctor)]
    ELSE [ok |-> FALSE, raised |-> FALSE, shared |-> <<old[1], 0, 0>>]

\* _load_index (lines 75-94) on the globals old = <<index, retriever,
\* generator>>: False when INDEX_DIR does not exist (line 84) and when
\* LlamaIndexIndexer.load raises (line 89); otherwise the globals are rebound
\* to the loaded index, as far as the constructors of lines 92-93 let it come
LoadIndex(dir, old, new, ctor) ==
    IF dir = "good"
    THEN [ok |-> ctor = "ok", raised |-> ctor # "ok",
          shared |-> Rebind(old, new, ctor)]
    ELSE [ok |-> FALSE, raised |-> FALSE, shared |-> old]

IndexLoadedMessage == "Index geladen. Stelle deine Frage!"
IndexMissingMessage == "Kein Index gefunden. Bitte führe zuerst den Indexer aus."

\* the event loop is not inside a synchronous call of some handler
LoopFree == loopHeld = 0

\* on_chat_start (lines 114-141) of session t; an exception of a constructor
\* leaves the handler before a message is sent
ChatStart(t, ctor) ==
    /\ LoopFree
    /\ sessPc[t] = "new"
    /\ LET r == LoadIndex(indexDir, <<index, retriever, generator>>,
                          built + 1, ctor)
       IN /\ index' = r.shared[1]
          /\ retriever' = r.shared[2]
          /\ generator' = r.shared[3]
          /\ built' = IF index' # index THEN built + 1 ELSE built
          /\ loadsCompleted' = IF r.ok THEN loadsCompleted + 1
                                       ELSE loadsCompleted
          /\ sessMessages' =
               [sessMessages EXCEPT ![t] =
                   IF r.raised THEN @
                   ELSE Append(@, IF r.ok THEN IndexLoadedMessage
                                          ELSE IndexMissingMessage)]
    /\ sessPc' = [sessPc EXCEPT ![t] = "idle"]
    /\ UNCHANGED <<indexDir, loopHeld, lastUserMessage, checkedWith,
                   usedRetriever, searched>>
    /\ UNCHANGED <<chatInputs, chatStream, OtherVarsOfChat>>

\* user_session["last_user_message"] written before the test of line 153
LastUserMessageBeforeCheck(rejected, old, content) == content

\* user_session["last_user_message"] after lines 153-156
LastUserMessageAfterCheck(rejected, old, content) ==
    IF rejected THEN old ELSE content

\* LlamaIndexIndexer.build (adapter lines 204-234) returns the index, raises
\* before anything is written, or raises while persist (line 233) writes
BuildOutcomes == {"ok", "raises", "persist_raises"}

\* on_message of session t with elements enters _ingest_elements (lines
\* 151-152, 97-108): a plain call inside the coroutine, so the event loop is
\* in it until it returns or raises
ChatIngest(t) ==
    /\ LoopFree
    /\ sessPc[t] = "idle"
    /\ sessElements[t]
    /\ sessPc' = [sessPc EXCEPT ![t] = "ingest"]
    /\ loopHeld' = t
    /\ UNCHANGED <<sharedVars, indexDir, built, loadsCompleted, sessMessages,
                   lastUserMessage, checkedWith, usedRetriever, searched>>
    /\ UNCHANGED <<chatInputs, chatStream, OtherVarsOfChat>>

\* on_message of session t up to its first await (lines 151-159): the
\* elements are ingested and the globals rebound (an exception of build or of
\* a constructor leaves on_message, with the globals as far as they were
\* assigned), then either the notice is sent, or last_user_message is set and
\* retriever.retrieve is handed to a worker thread
ChatBegin(t, build, ctor) ==
    /\ IF sessElements[t]
       THEN sessPc[t] = "ingest" /\ loopHeld = t
       ELSE sessPc[t] = "idle" /\ LoopFree
    /\ loopHeld' = 0
    /\ IF sessElements[t] /\ build # "ok"
       THEN /\ sessPc' = [sessPc EXCEPT ![t] = "propagated"]
            /\ indexDir' = IF build = "persist_raises" THEN "malformed"
                                                       ELSE indexDir
            /\ UNCHANGED <<sharedVars, built, loadsCompleted, sessMessages,
                           lastUserMessage, checkedWith, usedRetriever>>
       ELSE IF sessElements[t] /\ ctor # "ok"
       THEN /\ sessPc' = [sessPc EXCEPT ![t] = "propagated"]
            /\ index' = Rebind(<<index, retriever, generator>>, built + 1, ctor)[1]
            /\ retriever' = Rebind(<<index, retriever, generator>>, built + 1, ctor)[2]
            /\ generator' = Rebind(<<index, retriever, generator>>, built + 1, ctor)[3]
            /\ built' = built + 1
            /\ indexDir' = "good"
            /\ UNCHANGED <<loadsCompleted, sessMessages, lastUserMessage,
                           checkedWith, usedRetriever>>
       ELSE /\ IF sessElements[t]
               THEN /\ index' = Rebind(<<index, retriever, generator>>, built + 1, ctor)[1]
                    /\ retriever' = Rebind(<<index, retriever, generator>>, built + 1, ctor)[2]
                    /\ generator' = Rebind(<<index, retriever, generator>>, built + 1, ctor)[3]
                    /\ built' = built + 1
                    /\ loadsCompleted' = loadsCompleted + 1
                    /\ indexDir' = "good"
               ELSE UNCHANGED <<sharedVars, indexDir, built, loadsCompleted>>
            /\ checkedWith' = [checkedWith EXCEPT ![t] = <<retriever', generator'>>]
            /\ lastUserMessage' =
                 [lastUserMessage EXCEPT ![t] =
                     LastUserMessageAfterCheck(
                         retriever' = 0 \/ generator' = 0, @, t)]
            /\ IF retriever' = 0 \/ generator' = 0
               THEN /\ sessMessages' =
                         [sessMessages EXCEPT ![t] = Append(@, NoIndexMessage)]
                    /\ sessPc' = [sessPc EXCEPT ![t] = "returned"]
                    /\ usedRetriever' = usedRetriever
               ELSE /\ sessMessages' = sessMessages
                    /\ sessPc' = [sessPc EXCEPT ![t] = "retrieve"]
                    /\ usedRetriever' = [usedRetriever EXCEPT ![t] = retriever']
    /\ UNCHANGED searched
    /\ UNCHANGED <<chatInputs, chatStream, OtherVarsOfChat>>

\* lines 159-163: the worker thread has returned the nodes; with the internet
\* flag set internet_search is awaited next, sent.send() otherwise
ChatRetrieved(t) ==
    /\ LoopFree
    /\ sessPc[t] = "retrieve"
    /\ sessPc' = [sessPc EXCEPT ![t] = IF sessInternet[t] THEN "search"
                                                         ELSE "open"]
    /\ searched' = [searched EXCEPT ![t] = sessInternet[t]]
    /\ UNCHANGED <<sharedVars, indexDir, built, loadsCompleted, loopHeld, sessMessages, lastUserMessage,
                   checkedWith, usedRetriever>>
    /\ UNCHANGED <<chatInputs, chatStream, OtherVarsOfChat>>

\* lines 163-170: internet_search has returned
ChatSearched(t) ==
    /\ LoopFree
    /\ sessPc[t] = "search"
    /\ sessPc' = [sessPc EXCEPT ![t] = "open"]
    /\ UNCHANGED <<sharedVars, indexDir, built, loadsCompleted, loopHeld, sessMessages, lastUserMessage,
                   checkedWith, usedRetriever, searched>>
    /\ UNCHANGED <<chatInputs, chatStream, OtherVarsOfChat>>

\* lines 171-205: the empty message is sent, the turn's queue is created, its
\* consumer and its producer are started, gather is awaited
ChatOpen(t) ==
    /\ LoopFree
    /\ sessPc[t] = "open"
    /\ sessMessages' = [sessMessages EXCEPT ![t] = Append(@, EmptyMessage)]
    /\ sessQueue' = [sessQueue EXCEPT ![t] = <<>>]
    /\ sessParts' = [sessParts EXCEPT ![t] = <<>>]
    /\ sessConsumer' = [sessConsumer EXCEPT ![t] = "get"]
    /\ sessProducer' = [sessProducer EXCEPT ![t] = "called"]
    /\ sessPc' = [sessPc EXCEPT ![t] = "gather"]
    /\ UNCHANGED <<sharedVars, indexDir, built, loadsCompleted, loopHeld, lastUserMessage, checkedWith,
                   usedRetriever, searched, usedGenerator, loopCallbacks,
                   sessEmitted, sessSink>>
    /\ UNCHANGED <<chatInputs, OtherVarsOfChat>>

\* the worker thread of produce_sync runs beside the loop, the task of
\* produce_async only when the loop is free to run it
ProducerMayStep(t) == sessThreaded[t] \/ LoopFree

\* lines 191 / 199: the producer, once the loop (or the thread pool) runs it,
\* evaluates the global generator and calls its stream method
ChatProducerStart(t) ==
    /\ ProducerMayStep(t)
    /\ sessProducer[t] = "called"
    /\ usedGenerator' = [usedGenerator EXCEPT ![t] = generator]
    /\ sessProducer' = [sessProducer EXCEPT ![t] = "running"]
    /\ UNCHANGED <<sessQueue, loopCallbacks, sessEmitted, sessConsumer,
                   sessParts, sessSink>>
    /\ UNCHANGED <<sharedVars, chatInputs, chatMain, OtherVarsOfChat>>

\* one queue of the module that every turn uses
ChatQueueShared(t) == 1

\* line 175: the queue the closures of turn t are bound to is the turn's own
ChatQueueOf(t) == t

\* queue.put(item) on the loop (line 192), or
\* loop.call_soon_threadsafe(queue.put_nowait, item) from the thread (line 200)
ChatHandOver(t, item) ==
    IF sessThreaded[t]
    THEN /\ loopCallbacks' = Append(loopCallbacks, [to |-> ChatQueueOf(t),
                                                    item |-> item])
         /\ sessQueue' = sessQueue
    ELSE /\ sessQueue' = [sessQueue EXCEPT ![ChatQueueOf(t)] = Append(@, item)]
         /\ loopCallbacks' = loopCallbacks

\* lines 191-192 / 199-200
ChatProduceToken(t) ==
    /\ ProducerMayStep(t)
    /\ sessProducer[t] = "running"
    /\ sessEmitted[t] < MaxChatTokens
    /\ ChatHandOver(t, ChatItem(t, sessEmitted[t] + 1))
    /\ sessEmitted' = [sessEmitted EXCEPT ![t] = @ + 1]
    /\ UNCHANGED <<usedGenerator, sessProducer, sessConsumer, sessParts,
                   sessSink>>
    /\ UNCHANGED <<sharedVars, chatInputs, chatMain, OtherVarsOfChat>>

\* lines 193 / 201
ChatProduceEnd(t) ==
    /\ ProducerMayStep(t)
    /\ sessProducer[t] = "running"
    /\ sessEmitted[t] = MaxChatTokens
    /\ ChatHandOver(t, ChatItem(t, 0))
    /\ sessProducer' = [sessProducer EXCEPT ![t] = "done"]
    /\ UNCHANGED <<usedGenerator, sessEmitted, sessConsumer, sessParts,
                   sessSink>>
    /\ UNCHANGED <<sharedVars, chatInputs, chatMain, OtherVarsOfChat>>

\* the loop runs its oldest call_soon_threadsafe callback: the put_nowait of
\* the queue the callback was made for
ChatRunCallback ==
    /\ LoopFree
    /\ loopCallbacks # <<>>
    /\ sessQueue' = [sessQueue EXCEPT ![Head(loopCallbacks).to] =
                         Append(@, Head(loopCallbacks).item)]
    /\ loopCallbacks' = Tail(loopCallbacks)
    /\ UNCHANGED <<usedGenerator, sessEmitted, sessProducer, sessConsumer,
                   sessParts, sessSink>>
    /\ UNCHANGED <<sharedVars, chatInputs, chatMain, OtherVarsOfChat>>

\* lines 179-182 of turn t
ChatConsumeGet(t) ==
    /\ LoopFree
    /\ sessConsumer[t] = "get"
    /\ sessQueue[ChatQueueOf(t)] # <<>>
    /\ LET got == QueueGet(sessQueue[ChatQueueOf(t)])
       IN /\ sessQueue' = [sessQueue EXCEPT ![ChatQueueOf(t)] = got.rest]
          /\ IF got.item.k = 0
             THEN /\ sessConsumer' = [sessConsumer EXCEPT ![t] = "done"]
                  /\ sessParts' = sessParts
             ELSE /\ sessConsumer' = [sessConsumer EXCEPT ![t] = "stream"]
                  /\ sessParts' = [sessParts EXCEPT ![t] = Append(@, got.item)]
    /\ UNCHANGED <<usedGenerator, loopCallbacks, sessEmitted, sessProducer,
                   sessSink>>
    /\ UNCHANGED <<sharedVars, chatInputs, chatMain, OtherVarsOfChat>>

\* line 183 of turn t
ChatConsumeStream(t) ==
    /\ LoopFree
    /\ sessConsumer[t] = "stream"
    /\ sessSink' = [sessSink EXCEPT ![t] =
                       Append(@, sessParts[t][Len(sessParts[t])])]
    /\ sessConsumer' = [sessConsumer EXCEPT ![t] = "get"]
    /\ UNCHANGED <<usedGenerator, sessQueue, loopCallbacks, sessEmitted,
                   sessProducer, sessParts>>
    /\ UNCHANGED <<sharedVars, chatInputs, chatMain, OtherVarsOfChat>>

\* lines 205-235: gather has returned, the answer is joined, attributed and
\* the message updated
ChatFinish(t) ==
    /\ LoopFree
    /\ sessPc[t] = "gather"
    /\ sessProducer[t] = "done" /\ sessConsumer[t] = "done"
    /\ sessPc' = [sessPc EXCEPT ![t] = "returned"]
    /\ UNCHANGED <<sharedVars, indexDir, built, loadsCompleted, loopHeld, sessMessages, lastUserMessage,
                   checkedWith, usedRetriever, searched>>
    /\ UNCHANGED <<chatInputs, chatStream, OtherVarsOfChat>>

NextChat ==
    \/ \E t \in Sessions, c \in CtorOutcomes : ChatStart(t, c)
    \/ \E t \in Sessions : ChatIngest(t)
    \/ \E t \in Sessions, b \in BuildOutcomes, c \in CtorOutcomes :
          ChatBegin(t, b, c)
    \/ \E t \in Sessions : ChatRetrieved(t)
    \/ \E t \in Sessions : ChatSearched(t)
    \/ \E t \in Sessions : ChatOpen(t)
    \/ \E t \in Sessions : ChatProducerStart(t)
    \/ \E t \in Sessions : ChatProduceToken(t)
    \/ \E t \in Sessions : ChatProduceEnd(t)
    \/ ChatRunCallback
    \/ \E t \in Sessions : ChatConsumeGet(t)
    \/ \E t \in Sessions : ChatConsumeStream(t)
    \/ \E t \in Sessions : ChatFinish(t)

SpecChat == InitChat /\ [][NextChat]_vars

-----------------------------------------------------------------------------
(* core/adapters/llama_index: LlamaIndexIndexer.load, then a
   LlamaIndexRetriever over the loaded index, then one retrieve *)

\* largest RETRIEVAL_K, FETCH_K and top_k drawn
MaxEnvK == 3

DefaultRetrievalK == 5
DefaultFetchK == 20

EnvInts == {Unset, NotANumber} \cup (1..MaxEnvK)

\* what StorageContext.from_defaults and load_index_from_storage raise on a
\* directory they cannot read
StorageErrors == {"FileNotFoundError", "ValueError"}

InitAccess ==
    /\ CfgIdle
    /\ AttrIdle
    /\ TurnIdle
    /\ ChatIdle
    /\ accPc = "load"
    /\ storageAvailable \in BOOLEAN
    /\ accDir \in {"missing", "malformed", "good"}
    /\ accConfigured = FALSE /\ accIndex = 0 /\ accRaised = "none"
    /\ envRetrievalK \in EnvInts
    /\ envFetchK \in EnvInts
    /\ topK \in {NoTopK} \cup (1..MaxEnvK)
    /\ accRetriever = NoRetriever /\ accSearch = NoSearch
    /\ EmbIdle
    /\ ToolsIdle

\* a load that tests the directory itself
LoadWithExistenceTest(available, dir, libError) ==
    IF ~available
    THEN [raised |-> "ImportError", configured |-> FALSE, index |-> 0]
    ELSE IF dir = "missing"
    THEN [raised |-> "IndexNotFoundError", configured |-> FALSE, index |-> 0]
    ELSE IF dir = "good"
    THEN [raised |-> "none", configured |-> TRUE, index |-> 1]
    ELSE [raised |-> libError, configured |-> TRUE, index |-> 0]

\* LlamaIndexIndexer.load (lines 236-250): ImportError without the storage
\* components; otherwise the settings are configured and the directory is
\* handed to the storage layer, whose exception, if any, is not caught
Load(available, dir, libError) ==
    IF ~available
    THEN [raised |-> "ImportError", configured |-> FALSE, index |-> 0]
    ELSE IF dir = "good"
    THEN [raised |-> "none", configured |-> TRUE, index |-> 1]
    ELSE [raised |-> libError, configured |-> TRUE, index |-> 0]

AccLoad(libError) ==
    /\ accPc = "load"
    /\ LET r == Load(storageAvailable, accDir, libError)
       IN /\ accRaised' = r.raised
          /\ accConfigured' = r.configured
          /\ accIndex' = r.index
          /\ accPc' = IF r.raised = "none" THEN "construct" ELSE "done"
    /\ UNCHANGED <<storageAvailable, accDir, envRetrievalK, envFetchK, topK,
                   accRetriever, accSearch>>
    /\ UNCHANGED <<cfgVars, turnVars, attrVars, chatVars, embVars, toolVars>>

\* int(env.get(name, default))
EnvInt(v, default) == IF v = Unset THEN default ELSE v

\* LlamaIndexRetriever.__init__ (lines 256-260): int() raises ValueError on a
\* value that is not a number
AccConstruct ==
    /\ accPc = "construct"
    /\ IF NotANumber \in {envRetrievalK, envFetchK}
       THEN /\ accRaised' = "ValueError"
            /\ accRetriever' = accRetriever
            /\ accPc' = "done"
       ELSE /\ accRaised' = accRaised
            /\ accRetriever' = [k |-> EnvInt(envRetrievalK, DefaultRetrievalK),
                                fetch_k |-> EnvInt(envFetchK, DefaultFetchK)]
            /\ accPc' = "retrieve"
    /\ UNCHANGED <<storageAvailable, accDir, accConfigured, accIndex,
                   envRetrievalK, envFetchK, topK, accSearch>>
    /\ UNCHANGED <<cfgVars, turnVars, attrVars, chatVars, embVars, toolVars>>

\* LlamaIndexRetriever.retrieve (lines 262-268): top_k defaults to k, and the
\* search is made with similarity_top_k = top_k and fetch_k as they are
AccRetrieve ==
    /\ accPc = "retrieve"
    /\ accSearch' = [top_k |-> IF topK = NoTopK THEN accRetriever.k ELSE topK,
                     fetch_k |-> accRetriever.fetch_k]
    /\ accPc' = "done"
    /\ UNCHANGED <<storageAvailable, accDir, accConfigured, accIndex,
                   accRaised, envRetrievalK, envFetchK, topK, accRetriever>>
    /\ UNCHANGED <<cfgVars, turnVars, attrVars, chatVars, embVars, toolVars>>

NextAccess ==
    \/ \E x \in StorageErrors : AccLoad(x)
    \/ AccConstruct
    \/ AccRetrieve

SpecAccess == InitAccess /\ [][NextAccess]_vars

-----------------------------------------------------------------------------
(* core/adapters/llama_index: HashingEmbedding._embed *)

\* longest text embedded
MaxTextLen == 3
\* largest dim drawn
MaxDim == 2

\* " ", "A", "a", "b"
EmbChars == {32, 65, 97, 98}
EmbTexts == UNION {[1..n -> EmbChars] : n \in 0..MaxTextLen}

\* str.lower() that leaves every character as it is
LowerKeepsCase(c) == c

\* str.lower() on one character
Lower(c) == IF c \in 65..90 THEN c + 32 ELSE c

LowerText(s) == [i \in 1..Len(s) |-> Lower(s[i])]

\* the characters str.split() separates at
IsSpace(c) == c \in {9, 10, 11, 12, 13, 32}

RECURSIVE SplitAtEverySpaceFrom(_, _, _, _)
SplitAtEverySpaceFrom(s, i, cur, acc) ==
    IF i > Len(s) THEN Append(acc, cur)
    ELSE IF IsSpace(s[i])
    THEN SplitAtEverySpaceFrom(s, i + 1, <<>>, Append(acc, cur))
    ELSE SplitAtEverySpaceFrom(s, i + 1, Append(cur, s[i]), acc)

RECURSIVE SplitFrom(_, _, _, _)
SplitFrom(s, i, cur, acc) ==
    IF i > Len(s) THEN (IF cur = <<>> THEN acc ELSE Append(acc, cur))
    ELSE IF IsSpace(s[i])
    THEN SplitFrom(s, i + 1, <<>>, IF cur = <<>> THEN acc ELSE Append(acc, cur))
    ELSE SplitFrom(s, i + 1, Append(cur, s[i]), acc)

\* a split that yields the empty strings between separators, as split(" ")
SplitAtEverySpace(s) == SplitAtEverySpaceFrom(s, 1, <<>>, <<>>)

\* str.split(): the maximal runs of characters that are not whitespace
Split(s) == SplitFrom(s, 1, <<>>, <<>>)

\* _hash (lines 70-71) is a fixed function of the token's characters; a
\* polynomial stands for the SHA-256 digest
RECURSIVE HashFrom(_, _, _)
HashFrom(token, i, h) ==
    IF i > Len(token) THEN h
    ELSE HashFrom(token, i + 1, 31 * h + token[i] + (token[i] \div 32))

Hash(token) == HashFrom(token, 1, 7)

\* lines 74-76: vec[self._hash(token) % self.dim] += 1.0 for every token
RECURSIVE CountInto(_, _, _)
CountInto(tokens, dim, vec) ==
    IF tokens = <<>> THEN vec
    ELSE CountInto(Tail(tokens), dim,
                   [vec EXCEPT ![(Hash(Head(tokens)) % dim) + 1] = @ + 1])

RECURSIVE SumSq(_)
SumSq(vec) == IF vec = <<>> THEN 0 ELSE Head(vec) * Head(vec) + SumSq(Tail(vec))

\* _embed (lines 73-80): the bucket counts, divided by their Euclidean norm
\* when the norm is not zero
Embed(text, dim) ==
    LET vec == CountInto(Split(LowerText(text)), dim, [i \in 1..dim |-> 0])
    IN [num |-> vec, den2 |-> IF SumSq(vec) # 0 THEN SumSq(vec) ELSE 1]

InitEmbed ==
    /\ CfgIdle
    /\ AttrIdle
    /\ TurnIdle
    /\ ChatIdle
    /\ AccIdle
    /\ ToolsIdle
    /\ embDim \in 1..MaxDim
    /\ embTextA \in EmbTexts
    /\ embTextB \in EmbTexts
    /\ embVecA = NoVec /\ embVecB = NoVec

EmbedA ==
    /\ embVecA = NoVec
    /\ embVecA' = Embed(embTextA, embDim)
    /\ UNCHANGED <<embDim, embTextA, embTextB, embVecB>>
    /\ UNCHANGED <<cfgVars, turnVars, attrVars, chatVars, accVars, toolVars>>

EmbedB ==
    /\ embVecB = NoVec
    /\ embVecB' = Embed(embTextB, embDim)
    /\ UNCHANGED <<embDim, embTextA, embTextB, embVecA>>
    /\ UNCHANGED <<cfgVars, turnVars, attrVars, chatVars, accVars, toolVars>>

NextEmbed == EmbedA \/ EmbedB

SpecEmbed == InitEmbed /\ [][NextEmbed]_vars

-----------------------------------------------------------------------------
(* indexer/ingest.py: build_index *)

\* build_index calls in a behaviour
MaxBuilds == 2
\* changes to docs_dir in a behaviour
MaxDocEdits == 2

\* what can be at a path: nothing, a directory, a file whose read raises, a
\* file with one of two contents
FileStates == {Gone,
               [kind |-> "dir", content |-> 0],
               [kind |-> "unreadable", content |-> 0],
               [kind |-> "file", content |-> 1],
               [kind |-> "file", content |-> 2]}

\* index.json: absent, not JSON, or the mapping a build wrote, as the
\* sequence of its entries in the order of the file
IndexFiles ==
    { NoIndexFile,
      [kind |-> "invalid", items |-> <<>>],
      [kind |-> "json",
       items |-> <<[key |-> [stem |-> "b", suffix |-> ".PDF"], value |-> 2],
                   [key |-> [stem |-> "a", suffix |-> ".txt"], value |-> 2]>>],
      [kind |-> "json",
       items |-> <<[key |-> [stem |-> "old", suffix |-> ".md"], value |-> 1]>>] }

\* line 9
SupportedTextExts == {".txt", ".md", ".json", ".rst"}

\* path.suffix.lower()   (line 14)
SuffixLower(s) ==
    CASE s = ".PDF" -> ".pdf"
      [] s = ".TXT" -> ".txt"
      [] OTHER -> s

\* the value _read_file returns for None
NoContent == 0

\* _read_file (lines 12-25): the text of a supported file, None for a file
\* whose read raises and for an unsupported type
ReadFile(path, file) ==
    IF SuffixLower(path.suffix) \in SupportedTextExts \cup {".pdf"}
    THEN (IF file.kind = "file" THEN file.content ELSE NoContent)
    ELSE NoContent

Keys(items) == {items[i].key : i \in 1..Len(items)}

\* index[key] = value on a dict that moves an assigned key to the end
DictSetMovesToEnd(items, key, value) ==
    LET IsOther(e) == e.key # key
    IN Append(SelectSeq(items, IsOther), [key |-> key, value |-> value])

\* index[key] = value (line 48): an existing key keeps its place, a new key
\* is added at the end
DictSet(items, key, value) ==
    IF key \in Keys(items)
    THEN [i \in 1..Len(items) |->
             IF items[i].key = key THEN [key |-> key, value |-> value]
                                   ELSE items[i]]
    ELSE Append(items, [key |-> key, value |-> value])

\* lines 41-49 over the paths in the order docs_dir.glob yields them
RECURSIVE ScanDocs(_, _, _)
ScanDocs(order, d, items) ==
    IF order = <<>> THEN items
    ELSE LET path == Head(order)
             content == ReadFile(path, d[path])
         IN IF d[path].kind \in {"gone", "dir"} \/ content = NoContent
            THEN ScanDocs(Tail(order), d, items)
            ELSE ScanDocs(Tail(order), d, DictSet(items, path, content))

\* the paths added to updated_paths   (line 49)
UpdatedPaths(d) ==
    {path \in DOMAIN d :
        d[path].kind \notin {"gone", "dir"} /\ ReadFile(path, d[path]) # NoContent}

\* a build that keeps every entry
PruneNothing(items, updated) == items

\* line 52
Prune(items, updated) ==
    LET Kept(e) == e.key \in updated
    IN SelectSeq(items, Kept)

\* lines 32-38: {} unless index.json exists and is valid JSON
LoadedIndex(file) == IF file.kind = "json" THEN file.items ELSE <<>>

Orders(S) == {o \in [1..Cardinality(S) -> S] : \A i, j \in DOMAIN o : i # j => o[i] # o[j]}

OtherVarsOfIngest ==
    <<cfgVars, turnVars, attrVars, chatVars, adapterVars, fbVars, genVars,
      watchVars>>

InitIngest ==
    /\ CfgIdle
    /\ AttrIdle
    /\ TurnIdle
    /\ ChatIdle
    /\ AdapterIdle
    /\ FeedbackIdle
    /\ GenIdle
    /\ WatchIdle
    /\ docs \in [DocPaths -> FileStates]
    /\ indexFile \in IndexFiles
    /\ indexDirExists = (indexFile # NoIndexFile)
    /\ builds = 0 /\ docEdits = 0
    /\ docsChanged = TRUE

\* build_index (lines 28-57), from mkdir to write_text
BuildIndex(order) ==
    /\ builds < MaxBuilds
    /\ indexDirExists' = TRUE
    /\ indexFile' =
         [kind |-> "json",
          items |-> Prune(ScanDocs(order, docs, LoadedIndex(indexFile)),
                          UpdatedPaths(docs))]
    /\ builds' = builds + 1
    /\ docsChanged' = FALSE
    /\ UNCHANGED <<docs, docEdits>>
    /\ UNCHANGED OtherVarsOfIngest

\* a file or directory under docs_dir is created, changed or removed
EditDocs(path, state) ==
    /\ docEdits < MaxDocEdits
    /\ docs[path] # state
    /\ docs' = [docs EXCEPT ![path] = state]
    /\ docEdits' = docEdits + 1
    /\ docsChanged' = TRUE
    /\ UNCHANGED <<indexDirExists, indexFile, builds>>
    /\ UNCHANGED OtherVarsOfIngest

NextIngest ==
    \/ \E o \in Orders(DocPaths) : BuildIndex(o)
    \/ \E path \in DocPaths, s \in FileStates : EditDocs(path, s)

SpecIngest == InitIngest /\ [][NextIngest]_vars

-----------------------------------------------------------------------------
(* backend/app.py: vote_callback *)

\* vote_callback calls in a behaviour
MaxVotes == 2

Tab == 9
Newline == 10
\* "None"
NoneStr == <<78, 111, 110, 101>>

\* str(x) inside an f-string
Str(x) == IF x = NoneValue THEN NoneStr ELSE x

\* "q", "q\nr"
FbQueries == {<<113>>, <<113, 10, 114>>}
\* "", "d", "d\ne", "d\te"
FbDetails == {<<>>, <<100>>, <<100, 10, 101>>, <<100, 9, 101>>}

\* what AskUserMessage(...).send() returns: a dict, an object with a content
\* attribute, or None when the user does not answer
AskResponses ==
    {[shape |-> s, content |-> c] : s \in {"dict", "object"}, c \in FbDetails}
      \cup {[shape |-> "none", content |-> <<>>]}

\* lines 255-259
DetailContent(resp) == IF resp.shape = "none" THEN <<>> ELSE resp.content

\* datetime.utcnow().isoformat(): "T" and the clock's digit
IsoFormat(t) == <<84, 48 + t>>

\* the text written at lines 261-263
FeedbackRecord(t, last, detail) ==
    IsoFormat(t) \o <<Tab>> \o Str(last) \o <<Tab>> \o detail \o <<Newline>>

InitFeedback ==
    /\ CfgIdle
    /\ AttrIdle
    /\ TurnIdle
    /\ ChatIdle
    /\ AdapterIdle
    /\ IngestIdle
    /\ GenIdle
    /\ WatchIdle
    /\ feedbackLog = <<>>
    /\ fbLast \in FbQueries \cup {NoneValue}
    /\ fbNow = 0 /\ fbVotes = 0 /\ fbDown = 0

OtherVarsOfFeedback ==
    <<cfgVars, turnVars, attrVars, chatVars, adapterVars, ingVars, genVars,
      watchVars>>

\* on_message line 156 of a later turn
FbMessage(query) ==
    /\ fbVotes < MaxVotes
    /\ fbLast # query
    /\ fbLast' = query
    /\ UNCHANGED <<feedbackLog, fbNow, fbVotes, fbDown>>
    /\ UNCHANGED OtherVarsOfFeedback

\* vote_callback (lines 251-263)
VoteCallback(direction, resp) ==
    /\ fbVotes < MaxVotes
    /\ fbVotes' = fbVotes + 1
    /\ fbNow' = fbNow + 1
    /\ IF direction = "down"
       THEN /\ feedbackLog' =
                 feedbackLog \o FeedbackRecord(fbNow, fbLast, DetailContent(resp))
            /\ fbDown' = fbDown + 1
       ELSE UNCHANGED <<feedbackLog, fbDown>>
    /\ UNCHANGED fbLast
    /\ UNCHANGED OtherVarsOfFeedback

NextFeedback ==
    \/ \E q \in FbQueries : FbMessage(q)
    \/ \E d \in {"up", "down", "none"}, r \in AskResponses : VoteCallback(d, r)

SpecFeedback == InitFeedback /\ [][NextFeedback]_vars

-----------------------------------------------------------------------------
(* LlamaIndexResponseGenerator: generate, generate_stream, agenerate_stream *)

\* the largest THINKING_STEPS drawn
MaxThinkingSteps == 3
\* generation calls in a behaviour
MaxGenCalls == 2

\* str(n) inside the f-string
IntStr(n) ==
    CASE n = -1 -> "-1"
      [] n = 0 -> "0"
      [] n = 1 -> "1"
      [] n = 2 -> "2"
      [] n = 3 -> "3"
      [] OTHER -> "4"

\* texts are sequences of pieces
GenQueries == {<<>>, <<"ping">>, <<"ping", "\n", "pong">>}

\* f"Think in {self.thinking_steps} steps and answer.\n{query}"
ThinkPrefix(steps) == <<"Think in ", IntStr(steps), " steps and answer.\n">>

\* lines 292-293, 301-302, 321-322
WithThinking(steps, query) ==
    IF steps > 1 THEN ThinkPrefix(steps) \o query ELSE query

\* generate (line 294): what synthesize receives
GenerateQuery(steps, query) == WithThinking(steps, query)

\* generate_stream (line 304): what synthesize receives
GenerateStreamQuery(steps, query) == WithThinking(steps, query)

\* agenerate_stream: what asynthesize (line 327) or, on the fallback, the
\* synthesize of generate_stream (line 336) receives
AgenerateStreamQuery(steps, query, callable) ==
    IF callable
    THEN WithThinking(steps, query)
    ELSE GenerateStreamQuery(steps, WithThinking(steps, query))

InitGen ==
    /\ CfgIdle
    /\ AttrIdle
    /\ TurnIdle
    /\ ChatIdle
    /\ AdapterIdle
    /\ IngestIdle
    /\ FeedbackIdle
    /\ WatchIdle
    /\ thinkingSteps \in -1..MaxThinkingSteps
    /\ genQuery = NoQuery /\ synthQuery = NoQuery
    /\ genMode = "none" /\ genCalls = 0

OtherVarsOfGen ==
    <<cfgVars, turnVars, attrVars, chatVars, adapterVars, ingVars, fbVars,
      watchVars>>

Called(mode, query, received) ==
    /\ genCalls' = genCalls + 1
    /\ genMode' = mode
    /\ genQuery' = query
    /\ synthQuery' = received
    /\ UNCHANGED thinkingSteps
    /\ UNCHANGED OtherVarsOfGen

\* lines 291-295
Generate(query) ==
    /\ genCalls < MaxGenCalls
    /\ Called("generate", query, GenerateQuery(thinkingSteps, query))

\* lines 297-310
GenerateStream(query) ==
    /\ genCalls < MaxGenCalls
    /\ Called("generate_stream", query,
              GenerateStreamQuery(thinkingSteps, query))

\* lines 312-338
AgenerateStream(query, callable) ==
    /\ genCalls < MaxGenCalls
    /\ Called(IF callable THEN "agenerate_stream"
                          ELSE "agenerate_stream_fallback",
              query, AgenerateStreamQuery(thinkingSteps, query, callable))

NextGen ==
    \/ \E q \in GenQueries : Generate(q)
    \/ \E q \in GenQueries : GenerateStream(q)
    \/ \E q \in GenQueries, c \in BOOLEAN : AgenerateStream(q, c)

SpecGen == InitGen /\ [][NextGen]_vars

-----------------------------------------------------------------------------
(* indexer/watcher.py: main and DebouncedHandler *)

(* Time is a clock that ticks; an event is a call of on_any_event by the
   observer's thread. A threading.Timer is a thread that waits on its
   finished event for the interval, then tests finished.is_set() and, when it
   is not set, calls the function; cancel() sets finished, which ends a
   waiting timer and has no effect on one that is past the test. The step
   from the test to the call takes no tick, but an event can fall between
   the two. *)

\* run_ingest executions that can be in progress at a time in the model
MaxRunning == 2
\* the largest DEBOUNCE_SECONDS drawn, in ticks
MaxDelay == 3

InitWatch ==
    /\ CfgIdle
    /\ AttrIdle
    /\ TurnIdle
    /\ ChatIdle
    /\ AdapterIdle
    /\ IngestIdle
    /\ FeedbackIdle
    /\ GenIdle
    /\ wPc = "initial"
    /\ wDelay \in 1..MaxDelay
    /\ wTimerSet = FALSE /\ wWaiting = FALSE /\ wRemaining = 0
    /\ wArmed = 0 /\ wRunning = 0
    /\ wSince = wDelay /\ wPending = FALSE /\ wStarts = 0
    /\ wRaced = FALSE

OtherVarsOfWatch ==
    <<cfgVars, turnVars, attrVars, chatVars, adapterVars, ingVars, fbVars,
      genVars>>

\* main (lines 30-42): the ingest of line 38 has returned, the observer is
\* scheduled and started
MainWatching ==
    /\ wPc = "initial"
    /\ wPc' = "watching"
    /\ UNCHANGED <<wDelay, wTimerSet, wWaiting, wRemaining, wArmed, wRunning, wSince,
                   wPending, wStarts, wRaced>>
    /\ UNCHANGED OtherVarsOfWatch

\* main (lines 43-49): KeyboardInterrupt ends the sleep loop and the observer
\* is stopped and joined; the timer threads are not daemons and go on
MainInterrupted ==
    /\ wPc = "watching"
    /\ wPc' = "stopped"
    /\ UNCHANGED <<wDelay, wTimerSet, wWaiting, wRemaining, wArmed, wRunning,
                   wSince, wPending, wStarts, wRaced>>
    /\ UNCHANGED OtherVarsOfWatch

\* on_any_event (lines 18-22): the timer is cancelled when there is one, a
\* new one is created and started
OnAnyEvent ==
    /\ wPc = "watching"
    /\ wTimerSet' = TRUE
    /\ wWaiting' = TRUE
    /\ wRemaining' = wDelay
    /\ wSince' = 0
    /\ wPending' = TRUE
    /\ wStarts' = 0
    /\ wRaced' = (wArmed > 0)
    /\ UNCHANGED <<wPc, wDelay, wArmed, wRunning>>
    /\ UNCHANGED OtherVarsOfWatch

\* a tick of the clock; a wait whose interval is over returns first
Tick ==
    /\ wArmed = 0
    /\ wWaiting => wRemaining > 0
    /\ wRemaining' = IF wWaiting THEN wRemaining - 1 ELSE wRemaining
    /\ wSince' = IF wSince < wDelay THEN wSince + 1 ELSE wSince
    /\ UNCHANGED <<wPc, wDelay, wTimerSet, wWaiting, wArmed, wRunning, wPending,
                   wStarts, wRaced>>
    /\ UNCHANGED OtherVarsOfWatch

\* Timer.run: finished.wait(interval) has timed out and finished.is_set() is
\* found false
TimerExpire ==
    /\ wWaiting /\ wRemaining = 0
    /\ wWaiting' = FALSE
    /\ wArmed' = wArmed + 1
    /\ UNCHANGED <<wPc, wDelay, wTimerSet, wRemaining, wRunning, wSince, wPending,
                   wStarts, wRaced>>
    /\ UNCHANGED OtherVarsOfWatch

\* run_ingest (lines 24-27) begins on the timer's thread
RunIngestStart ==
    /\ wArmed > 0
    /\ wRunning < MaxRunning
    /\ wArmed' = wArmed - 1
    /\ wRunning' = wRunning + 1
    /\ wPending' = FALSE
    /\ wStarts' = wStarts + 1
    /\ UNCHANGED <<wPc, wDelay, wTimerSet, wWaiting, wRemaining, wSince, wRaced>>
    /\ UNCHANGED OtherVarsOfWatch

\* ingest.main() of line 27 returns
RunIngestEnd ==
    /\ wRunning > 0
    /\ wRunning' = wRunning - 1
    /\ UNCHANGED <<wPc, wDelay, wTimerSet, wWaiting, wRemaining, wArmed, wSince,
                   wPending, wStarts, wRaced>>
    /\ UNCHANGED OtherVarsOfWatch

NextWatch ==
    \/ MainWatching
    \/ MainInterrupted
    \/ OnAnyEvent
    \/ Tick
    \/ TimerExpire
    \/ RunIngestStart
    \/ RunIngestEnd

SpecWatch == InitWatch /\ [][NextWatch]_vars

\* The clock goes on, main and the timer threads are scheduled, an ingest
\* ends, and a wait that has timed out returns; nothing is assumed about the
\* events.
SpecWatchFair ==
    /\ SpecWatch
    /\ WF_vars(MainWatching)
    /\ WF_vars(Tick)
    /\ SF_vars(TimerExpire)
    /\ WF_vars(RunIngestStart)
    /\ WF_vars(RunIngestEnd)

-----------------------------------------------------------------------------
(* Claims about one chat turn *)

RECURSIVE Texts(_)
Texts(items) ==
    IF items = <<>> THEN <<>>
    ELSE <<items[1].text>> \o Texts(Tail(items))

IsToken(item) == ~item.end
ByConsumer(chunk) == chunk.by = "consume"
\* the tokens the producer has handed over, in the order it did
PushedTokens == Texts(SelectSeq(pushed, IsToken))
\* the tokens the consumer has forwarded to sent.stream_token
SinkTokens == Texts(SelectSeq(sink, ByConsumer))
Count(seq, x) == Cardinality({i \in 1..Len(seq) : seq[i] = x})
RECURSIVE Items(_)
Items(ts) == IF ts = <<>> THEN <<>> ELSE <<Item(ts[1])>> \o Items(Tail(ts))

\* C4: at every moment of a turn, in every producer shape, the tokens that
\* have reached the sink and the accumulator are, in order, the first tokens
\* the producer emitted.
C4_TokensInProducerOrder ==
    /\ IsPrefix(PushedTokens, Generated)
    /\ IsPrefix(answerParts, PushedTokens)
    /\ IsPrefix(SinkTokens, answerParts)
    /\ Len(answerParts) - Len(SinkTokens) = IF cPc = "stream" THEN 1 ELSE 0

C4_Witness ==
    /\ Threaded
    /\ toks = <<Pong, Bang>>
    /\ SinkTokens = <<Pong, Bang>>
    /\ answerParts = <<Pong, Bang>>

\* C5: in every turn that starts a producer, the producer, once it has ended,
\* has pushed every generated token and then exactly one end-of-stream marker.
C5_ExactlyOneEndMarker ==
    pPc \in {"done", "raised"} =>
        pushed = Items(SubSeq(Generated, 1, emitted)) \o <<EndMarker>>

\* When the generation does not raise, the producer ends with every token and
\* one end-of-stream marker pushed, in each producer shape.
EndMarkerOnceWhenGenerationCompletes ==
    /\ (failAt = -1 /\ pPc = "done") => pushed = Items(Generated) \o <<EndMarker>>
    /\ Count(pushed, EndMarker) <= 1
    /\ failAt = -1 => pPc # "raised"

\* C6: the turn reaches the source attribution only with the producer and the
\* consumer both done and every generated token accumulated once, in order;
\* the answer is then their concatenation without separators, followed by the
\* sources segment.
C6_JoinBeforeAttribution ==
    /\ (mPc \in {"attribute", "update"} \/ sentUpdated) =>
          /\ pPc = "done" /\ cPc = "done"
          /\ queue = <<>> /\ callbacks = <<>>
          /\ answerParts = Generated
          /\ SinkTokens = Generated
    /\ (mPc = "update" \/ sentUpdated) =>
          answer = Join(Generated, <<>>) \o SourcesText(nodes)

C6_Witness ==
    /\ toks = <<Pong, Bang>> /\ genPresent
    /\ mPc = "returned" /\ sentUpdated
    /\ nodes = <<>>
    /\ answer = <<112, 111, 110, 103, 33>>

\* C7: delivery is incremental in every producer shape: for a stream of two or
\* more tokens, whenever a token is in the channel and the consumer waits for
\* it, the consumer can take it and forward it, also while the producer has
\* not yet produced the last token.
C7_ConsumerNeverStalled ==
    (Len(Generated) >= 2 /\ cPc = "get" /\ queue # <<>>) => ENABLED ConsumeGet

\* On the synchronous fallback of agenerate_stream nothing reaches the sink
\* before the producer has ended.
FallbackDeliversAfterProducerEnds ==
    (SyncFallback /\ sink # <<>>) => pPc \in {"done", "raised"}

ExceptionInTurn == retrieveRaised \/ pPc = "raised"

\* C8: an exception of the retrieval or of the generation (also one raised
\* midway through the stream) never leaves on_message: the turn can always go
\* on to its except block, sends the failure message exactly once, returns,
\* and the shared index, retriever and generator stay as they were.
C8_FailureIsAnsweredOnce ==
    /\ Count(messages, FailureMessage) <= 1
    /\ ExceptionInTurn =>
          /\ mPc \in {"gather", "except", "returned"}
          /\ mPc = "gather" => ENABLED MainGatherRaise
          /\ mPc = "except" => ENABLED MainExcept
          /\ mPc = "returned" => Count(messages, FailureMessage) = 1
          /\ <<index, retriever, generator>> = sharedAtTry
          /\ ~sentUpdated
    /\ mPc = "propagated" => (messages = <<>> /\ pPc = "idle")

C8_Witness ==
    /\ pPc = "raised" /\ emitted = 1 /\ Len(Generated) = 2
    /\ mPc = "returned"
    /\ messages = <<EmptyMessage, FailureMessage>>
    /\ index = 2

\* C9: a failed turn does not leave the stream open: once the producer has
\* raised and on_message has returned, a consumer with nothing left to take
\* has ended, and no partially streamed answer is left in the sink.
C9_FailedTurnClosesStream ==
    (pPc = "raised" /\ mPc = "returned"
       /\ queue = <<>> /\ callbacks = <<>> /\ cPc # "stream") =>
        /\ cPc = "done"
        /\ sink = <<>>

\* the chunks sent.stream_token received from line 227
BySources(chunk) == chunk.by = "sources"
Attributed == mPc = "update" \/ sentUpdated
\* "\n\nSources: " and "\n\nQuellen: "
SegmentSources == <<10, 10, 83, 111, 117, 114, 99, 101, 115, 58, 32>>
SegmentQuellen == <<10, 10, 81, 117, 101, 108, 108, 101, 110, 58, 32>>

\* the trailing segment with the given head: appended to the answer and
\* streamed as the one chunk after all tokens when the source list is not
\* empty, neither appended nor streamed when it is
TrailingSegment(head) ==
    /\ ~Attributed => SelectSeq(sink, BySources) = <<>>
    /\ Attributed =>
          IF Sources(nodes) # <<>>
          THEN /\ answer = Join(Generated, <<>>) \o head \o Sources(nodes)
               /\ sink = SelectSeq(sink, ByConsumer)
                           \o <<[text |-> head \o Sources(nodes),
                                  by |-> "sources"]>>
               /\ SinkTokens = Generated
          ELSE /\ answer = Join(Generated, <<>>)
               /\ sink = SelectSeq(sink, ByConsumer)

\* C11 as claimed: a non-empty source list is appended to the answer, and
\* streamed as one chunk after every token, behind two newlines and the label
\* "Sources: "; an empty list appends and streams nothing.
C11_Original == TrailingSegment(SegmentSources)

\* C11 (amended): a non-empty source list is appended to the answer, and
\* streamed as one chunk after every token, behind two newlines and the label
\* "Quellen: "; an empty list appends and streams nothing.
C11_TrailingSourcesSegment == TrailingSegment(SegmentQuellen)

C11_Witness ==
    /\ sentUpdated
    /\ toks = <<Pong, Bang>> /\ genPresent
    /\ Sources(nodes) = ATxt \o CommaSpace \o BTxt
    /\ Len(sink) = 3
    /\ sink[3] = [text |-> SegmentQuellen \o ATxt \o CommaSpace \o BTxt,
                  by |-> "sources"]

\* C12: a failure of the search service (timeout, exception, non-success
\* status, malformed payload) never fails the turn: internet_search gives the
\* empty string, and the turn goes on with the retrieved nodes only.
C12_SearchFailureIsSwallowed ==
    (searchFailed /\ ~ExceptionInTurn) =>
        /\ mPc \in {"open", "gather", "attribute", "update", "returned"}
        /\ mPc = "open" => ENABLED MainOpen
        /\ nodes \in RetrievalResults
        /\ Count(messages, FailureMessage) = 0

C12_Witness ==
    /\ searchFailed /\ internet
    /\ sentUpdated
    /\ Len(nodes) = 3
    /\ toks = <<Pong>>

-----------------------------------------------------------------------------
(* Claims about turns and sessions that share the globals *)

\* C13: the retriever a turn retrieves with and the generator it generates
\* with belong to the same index version, whatever rebuild or load another
\* session runs while the turn is in flight.
C13_TurnSeesOneIndexVersion ==
    \A t \in Sessions :
        (usedRetriever[t] # 0 /\ usedGenerator[t] # 0) =>
            usedRetriever[t] = usedGenerator[t]

\* C27: a rebuild triggered from a turn runs off the request-handling path:
\* while the rebuild of one session is in progress, the consumer of another
\* turn that has an item in its queue can take its step.
C27_RebuildLeavesLoopFree ==
    \A t \in Sessions, u \in Sessions :
        (loopHeld = t /\ u # t /\ sessConsumer[u] = "get"
            /\ sessQueue[u] # <<>>) => ENABLED ChatConsumeGet(u)

\* While a rebuild is in progress no task of the loop takes a step; only the
\* worker threads of produce_sync go on.
RebuildHoldsTheLoop ==
    [][loopHeld # 0 =>
          /\ sessQueue' = sessQueue /\ sessSink' = sessSink
          /\ \A u \in Sessions :
                (u # loopHeld /\ sessPc'[u] = sessPc[u] /\ ~sessThreaded[u]) =>
                    sessEmitted'[u] = sessEmitted[u]]_vars

\* C28: after any sequence of loads and rebuilds, failing ones included, the
\* globals are all unset, or the retriever wraps the current index and the
\* generator was constructed in the same load or rebuild.
C28_GlobalsMutuallyConsistent ==
    \/ index = 0 /\ retriever = 0 /\ generator = 0
    \/ index # 0 /\ retriever = index /\ generator = index

\* The globals stay consistent as long as no constructor has raised.
ConsistentUntilConstructorRaises ==
    built = loadsCompleted => C28_GlobalsMutuallyConsistent

OfTurn(items, t) == \A i \in 1..Len(items) : items[i].turn = t

\* C14: under every interleaving of two turns, what a turn's consumer
\* accumulates and what reaches the turn's sink are tokens of the turn's own
\* producer, and so is everything in the turn's queue.
C14_TurnsDoNotInterfere ==
    \A t \in Sessions :
        /\ OfTurn(sessQueue[t], t)
        /\ OfTurn(sessParts[t], t)
        /\ OfTurn(sessSink[t], t)
        /\ Len(sessSink[t]) <= sessEmitted[t]

C14_Witness ==
    /\ sessThreaded[1] /\ ~sessThreaded[2]
    /\ sessPc[1] = "gather" /\ sessPc[2] = "gather"
    /\ sessSink[1] = <<ChatItem(1, 1)>>
    /\ sessParts[2] = <<ChatItem(2, 1)>>
    /\ sessProducer[1] = "running"

\* on_message of session t has gone through the test of line 153
Checked(t) == sessPc[t] \notin {"new", "idle", "ingest", "propagated"}
Rejected(t) == Checked(t) /\ (checkedWith[t][1] = 0 \/ checkedWith[t][2] = 0)

\* C15: a turn that finds the retriever or the generator unset sends the
\* "Kein Index geladen." notice and returns, with no retrieval, no search, no
\* generation and last_user_message untouched; the globals are unset exactly
\* as long as no build and no load has succeeded, and a turn that finds them
\* set is processed.
C15_NoIndexTurnsAreRejected ==
    /\ (retriever = 0 \/ generator = 0) <=> loadsCompleted = 0
    /\ \A t \in Sessions :
          /\ Rejected(t) =>
                /\ sessPc[t] = "returned"
                /\ Count(sessMessages[t], NoIndexMessage) = 1
                /\ sessMessages[t][Len(sessMessages[t])] = NoIndexMessage
                /\ usedRetriever[t] = 0 /\ ~searched[t]
                /\ usedGenerator[t] = 0 /\ sessProducer[t] = "idle"
                /\ sessSink[t] = <<>>
                /\ lastUserMessage[t] = 0
          /\ (Checked(t) /\ ~Rejected(t)) =>
                /\ Count(sessMessages[t], NoIndexMessage) = 0
                /\ usedRetriever[t] # 0
                /\ lastUserMessage[t] = t

C15_Witness ==
    /\ Rejected(1)
    /\ sessPc[2] = "returned" /\ ~Rejected(2) /\ sessElements[2]
    /\ sessSink[2] = <<ChatItem(2, 1)>>
    /\ sessMessages[1] = <<IndexMissingMessage, NoIndexMessage>>

\* C17: _load_index returns False (on_chat_start then sends the "Kein Index
\* gefunden" message) both when INDEX_DIR does not exist and when the load of
\* a malformed index raises, and in both cases the globals index, retriever
\* and generator keep their values.
C17_FailedLoadLeavesSharedState ==
    [][\A t \in Sessions :
          (sessPc[t] = "new" /\ sessPc'[t] = "idle" /\ indexDir # "good") =>
              /\ <<index, retriever, generator>>' = <<index, retriever, generator>>
              /\ sessMessages'[t] = Append(sessMessages[t], IndexMissingMessage)]_vars

C17_Witness ==
    /\ indexDir = "malformed"
    /\ index = 1 /\ retriever = 1 /\ generator = 1
    /\ sessPc[1] = "propagated"
    /\ sessMessages[2] = <<IndexMissingMessage>>

-----------------------------------------------------------------------------
(* Claims about the adapter's load and retriever *)

Loaded == accPc # "load"

\* C16 as claimed: with the storage components present, load raises
\* IndexNotFoundError when the directory does not exist and returns a ready
\* index whenever it exists.
C16_Original ==
    (Loaded /\ storageAvailable) =>
        IF accDir = "missing"
        THEN accRaised = "IndexNotFoundError" /\ accIndex = 0
        ELSE accIndex # 0

\* C16 (amended): load raises ImportError when the storage components are
\* missing; otherwise it configures the settings and returns a ready index
\* exactly when the storage layer can read the directory, and lets the
\* storage layer's own exception through when the directory is missing or
\* malformed; it never raises an IndexNotFoundError.
C16_LoadPropagatesStorageErrors ==
    Loaded =>
        /\ accRaised # "IndexNotFoundError"
        /\ ~storageAvailable =>
              (accRaised = "ImportError" /\ ~accConfigured /\ accIndex = 0)
        /\ (storageAvailable /\ accDir = "good") =>
              (accIndex # 0 /\ accConfigured)
        /\ (storageAvailable /\ accDir # "good") =>
              (accRaised \in StorageErrors /\ accIndex = 0 /\ accConfigured)

C16_Witness ==
    /\ accPc = "done" /\ storageAvailable
    /\ accDir = "malformed" /\ accRaised = "ValueError" /\ accIndex = 0

\* C18: a retriever whose fetch_k is below its k, or below the top_k passed
\* to retrieve, ends in a configuration error and makes no search.
C18_FetchKBelowTopKIsRejected ==
    /\ (accPc = "done" /\ accRetriever # NoRetriever
          /\ accRetriever.fetch_k < accSearch.top_k) =>
          accRaised = "ConfigurationError"
    /\ accSearch # NoSearch => accSearch.fetch_k >= accSearch.top_k

-----------------------------------------------------------------------------
(* Claims about the embedding *)

HasToken(text) == \E i \in 1..Len(text) : ~IsSpace(text[i])
AllZero(vec) == \A i \in 1..Len(vec) : vec[i] = 0

\* the text embedded and the vector returned have the shape C19 states: dim
\* components; with a token in the text the squares of the components sum to
\* one (the numerators' squares sum to the squared denominator); without one
\* every component is zero
UnitOrZero(text, v) ==
    v # NoVec =>
        /\ Len(v.num) = embDim
        /\ v.den2 > 0
        /\ IF HasToken(text)
           THEN SumSq(v.num) = v.den2
           ELSE AllZero(v.num)

\* C19: _embed returns a vector of dim components, of Euclidean norm 1 when
\* the text has a whitespace-separated token and all zero when it has none.
C19_EmbeddingIsUnitOrZero ==
    /\ UnitOrZero(embTextA, embVecA)
    /\ UnitOrZero(embTextB, embVecB)

C19_Witness ==
    /\ embDim = 2
    /\ embTextA = <<97, 32, 97>> /\ embVecA.den2 = 4
    /\ embTextB = <<32, 32>> /\ embVecB = [num |-> <<0, 0>>, den2 |-> 1]

CaseFolded(s) == [i \in 1..Len(s) |-> IF s[i] \in 65..90 THEN s[i] + 32 ELSE s[i]]
\* the multiset of the lower-cased tokens of a text
TokenBag(text) ==
    LET ts == Split(CaseFolded(text))
    IN [x \in {ts[i] : i \in 1..Len(ts)} |-> Count(ts, x)]

\* C20: two texts with the same multiset of lower-cased tokens get the same
\* vector, whatever the order and the case of their tokens.
C20_EmbeddingIsBagOfTokens ==
    (embVecA # NoVec /\ embVecB # NoVec /\ TokenBag(embTextA) = TokenBag(embTextB))
        => embVecA = embVecB

C20_Witness ==
    /\ embDim = 2
    /\ embTextA = <<97, 32, 98>> /\ embTextB = <<98, 32, 65>>
    /\ embVecA # NoVec /\ embVecA = embVecB

-----------------------------------------------------------------------------
(* Claims about build_index *)

\* the files under docs_dir that are read successfully: regular files of a
\* supported text type or PDF whose read does not raise
ReadablePaths ==
    {path \in DocPaths :
        /\ docs[path].kind = "file"
        /\ path.suffix \in {".txt", ".md", ".json", ".rst", ".PDF"}}

\* C21: once build_index has returned and docs_dir has not changed since,
\* index_dir exists and index.json is a mapping whose keys are exactly the
\* relative paths of the files read successfully, each once and with its
\* current content, whatever index.json held before.
C21_IndexReflectsLatestBuild ==
    (builds > 0 /\ ~docsChanged) =>
        /\ indexDirExists
        /\ indexFile.kind = "json"
        /\ Keys(indexFile.items) = ReadablePaths
        /\ Len(indexFile.items) = Cardinality(ReadablePaths)
        /\ \A i \in 1..Len(indexFile.items) :
              indexFile.items[i].value = docs[indexFile.items[i].key].content

C21_Witness ==
    /\ builds = 2 /\ ~docsChanged /\ docEdits = 1
    /\ docs[[stem |-> "a", suffix |-> ".txt"]] = Gone
    /\ docs[[stem |-> "c", suffix |-> ".png"]].kind = "file"
    /\ indexFile.items =
         <<[key |-> [stem |-> "b", suffix |-> ".PDF"], value |-> 1]>>

\* C22: a build_index on a docs_dir that has not changed since the previous
\* build returned leaves index.json as that build wrote it.
C22_RebuildIsIdempotent ==
    [][(builds' = builds + 1 /\ builds > 0 /\ ~docsChanged) =>
          indexFile' = indexFile]_vars

C22_Witness ==
    /\ builds = 2 /\ ~docsChanged /\ docEdits = 0
    /\ Len(indexFile.items) = 2

\* C26: the node list passed to the generation is the retrieved nodes in
\* retrieval order, followed by exactly one node with metadata source
\* "Internet" and score 0.2 if and only if the internet flag is set and the
\* search returned a non-empty snippet; otherwise it is the retrieved nodes.
C26_NodesPassedToGeneration ==
    pPc # "idle" =>
        IF internet /\ snippet # <<>>
        THEN /\ nodes = Append(retrieved, InternetNode)
             /\ scores = Append(RetrievalScores(retrieved), InternetScore)
        ELSE /\ nodes = retrieved
             /\ scores = RetrievalScores(retrieved)

C26_Witness ==
    /\ pPc # "idle"
    /\ internet /\ snippet # <<>>
    /\ Len(retrieved) = 3
    /\ nodes[4] = InternetNode /\ scores[4] = InternetScore

\* C24: when the generator offers only a blocking token iterator (no
\* asynthesize, or no agenerate_stream at all), the iteration over it never
\* holds the event loop the consumer runs on.
C24_BlockingIterationOffLoop ==
    ~NativeAsync => loopOwner # "producer"

\* With no agenerate_stream the iteration is on the worker thread and every
\* item reaches the queue through a call_soon_threadsafe callback.
ThreadedIterationIsOffLoop ==
    Threaded => (loopOwner = "free" /\ Len(pushed) >= Len(callbacks))

-----------------------------------------------------------------------------
(* Claims about the generation modes *)

\* C25: in every generation mode the synthesizer receives the caller's query
\* preceded by the multi-step instruction exactly once when thinking_steps > 1,
\* and the caller's query itself when thinking_steps <= 1.
C25_InstructionExactlyOnce ==
    genCalls > 0 =>
        synthQuery = IF thinkingSteps > 1
                     THEN ThinkPrefix(thinkingSteps) \o genQuery
                     ELSE genQuery

\* Outside the fallback of agenerate_stream the instruction is there once.
InstructionOnceOutsideFallback ==
    (genCalls > 0 /\ genMode # "agenerate_stream_fallback") =>
        synthQuery = IF thinkingSteps > 1
                     THEN ThinkPrefix(thinkingSteps) \o genQuery
                     ELSE genQuery

\* On the fallback the instruction is there twice when thinking_steps > 1.
InstructionTwiceOnFallback ==
    (genMode = "agenerate_stream_fallback" /\ thinkingSteps > 1) =>
        synthQuery = ThinkPrefix(thinkingSteps) \o ThinkPrefix(thinkingSteps)
                        \o genQuery

-----------------------------------------------------------------------------
(* Claims about the watcher *)

\* C30: the watcher debounces: a run of the ingest begins only when at least
\* delay has passed since the most recent event, the events of a burst are
\* followed by one run, and every event is eventually followed by the start
\* of a run.
C30_WatcherDebounces ==
    /\ [][RunIngestStart => wSince >= wDelay]_vars
    /\ [](wStarts <= 1)
    /\ (wPending ~> ~wPending)

\* A run begins early, or a second time, only after an event that came
\* between a timer's test of finished.is_set() and its call of run_ingest.
DebouncesUnlessRaced ==
    /\ [][(RunIngestStart /\ ~wRaced) => wSince >= wDelay]_vars
    /\ [](~wRaced => wStarts <= 1)

\* An event is followed by a run when the events pause for delay again and
\* again.
PausesServeEvents ==
    ([]<>(wSince = wDelay)) => (wPending ~> ~wPending)

\* C31: at most one ingest run started by the watcher executes at any time,
\* whenever the events arrive, an event during a running ingest included.
C31_RunsNeverOverlap ==
    wRunning <= 1

-----------------------------------------------------------------------------
(* Claims about the feedback log *)

\* C23: the feedback log holds one line per down-vote, each of the form
\* timestamp TAB query TAB detail, and nothing for an up-vote.
C23_OneLinePerDownVote ==
    /\ Count(feedbackLog, Newline) = fbDown
    /\ Count(feedbackLog, Tab) = 2 * fbDown

\* The log only grows: every step leaves what was written as a prefix of the
\* log, an up-vote leaves it as it is and a down-vote ends it with a newline.
FeedbackLogIsAppendOnly ==
    [][/\ IsPrefix(feedbackLog, feedbackLog')
       /\ fbDown' = fbDown => feedbackLog' = feedbackLog
       /\ fbDown' # fbDown => feedbackLog'[Len(feedbackLog')] = Newline]_vars

-----------------------------------------------------------------------------
(* Claims about the source attribution *)

\* the nodes that carry a file_name or a source
Named(ns) ==
    {i \in 1..Len(ns) : HasKey(ns[i], "file_name") \/ HasKey(ns[i], "source")}

\* C29: the source list never contains an empty entry, whatever the nodes:
\* every element joined into the sources segment is a non-empty string and
\* the list does not start with a separator.
C29_NoEmptySourceEntry ==
    attrDone =>
        /\ <<>> \notin SourceSet(attrNodes)
        /\ ~IsPrefix(CommaSpace, attrSources)

\* C10: the source list is the set of the file_name values (the source value
\* where there is no file_name) of the nodes that carry one, sorted and joined
\* with ", ".
C10_SourcesAreSortedUniqueNames ==
    attrDone =>
        attrSources =
            Join(Sorted({SourceEntry(attrNodes[i]) : i \in Named(attrNodes)}),
                 CommaSpace)

=============================================================================
